---- MODULE Spec2Model ----
(***************************************************************************)
(* Model of ollama_coder/session.py: SessionManager, the persistent        *)
(* conversation store (SQLite tables `sessions` and `messages`, one        *)
(* messages.jsonl log per session directory, and the in-memory "current    *)
(* session" pointer and message counter of one SessionManager object).     *)
(*                                                                         *)
(* Every public method is one action.  The methods are written as          *)
(* operators from a store record to a result record, so that a method      *)
(* that calls other methods (branch_session -> load_session,               *)
(* create_session, save_message, update_title; save_message ->             *)
(* _auto_generate_title -> update_title) is the composition the code runs. *)
(* A step that can raise in the running program (a SQLite statement or     *)
(* commit, a directory creation or removal) takes a `fail` input that      *)
(* names the step that raises; the result then carries the store as the    *)
(* exception leaves it.  The store a method leaves when it raises after    *)
(* step n is also the store the method is in between steps n and n+1, so   *)
(* the reachable states include every intermediate point of every method.  *)
(***************************************************************************)
EXTENDS Integers, Sequences, FiniteSets, TLC

(***************************************************************************)
(* Bounds of the model.                                                    *)
(***************************************************************************)
NumIds == 2        \* session ids str(uuid4())[:8] can take
MaxRowId == 3      \* Spec: cap on the AUTOINCREMENT counter of table messages
MaxSeed == 3       \* SpecBranch: cap on the lines of the session it starts with
MaxClock == 1      \* datetime.now() takes values 0..MaxClock
MaxFaults == 1     \* cap on the calls a raising step leaves partly done
MaxTitleLen == 13  \* cap on the length of a title branch_session composes

(***************************************************************************)
(* Program constants.                                                      *)
(***************************************************************************)
TitleAt == 3       \* `if self._message_count == 3`
TitleScan == 5     \* `self.load_messages(session_id, limit=5)`
TitleChars == 50   \* `content[:50]`

Ids == 1..NumIds
NoId == 0          \* session_id None / current_session_id None / SQL NULL
NullInt == -1      \* SQL NULL in the INTEGER column branch_point

\* SQL NULL / Python None where the value is otherwise a sequence.  "NULL" is
\* no character and no tool name, so no title, content or list equals it.
NULL == <<"NULL">>

Min(S) == CHOOSE x \in S : \A y \in S : x <= y
Max2(a, b) == IF a >= b THEN a ELSE b
Min2(a, b) == IF a <= b THEN a ELSE b

\* Python truthiness of an Optional[str] / Optional[list]: None and the empty
\* string or list are falsy.
Truthy(v) == v # NULL /\ v # <<>>

\* Python s[:k] and s[k:] for any integer k.
PySliceTo(s, k) ==
    IF k >= 0 THEN SubSeq(s, 1, Min2(k, Len(s)))
    ELSE SubSeq(s, 1, Max2(Len(s) + k, 0))
PySliceFrom(s, k) ==
    IF k >= 0 THEN SubSeq(s, Min2(k, Len(s)) + 1, Len(s))
    ELSE SubSeq(s, Max2(Len(s) + k, 0) + 1, Len(s))

\* An Optional[int] argument.
NoneArg == [given |-> FALSE, k |-> 0]
SomeArg(k) == [given |-> TRUE, k |-> k]

VARIABLES
    sessions,             \* table sessions: id -> row, for the ids that have a row
    messages,             \* table messages, in rowid order
    sqlite_sequence,      \* AUTOINCREMENT counter of table messages
    logs,                 \* id -> lines of <id>/messages.jsonl, for the ids whose directory exists
    current_session_id,   \* self.current_session_id
    mem_message_count,    \* self._message_count
    open_handles,         \* the connections the manager opened and has not closed
    db_lock,              \* who holds the write lock of sessions.db
    calls,                \* where each concurrent save_message call stands
    parser,               \* BashSafetyParser: custom_blocked and custom_allowed
    checked,              \* a check_command call: its command and, once made, what it returned
    hook_manager,         \* a HookManager: config, self._hooks, and a run_pre_hook call
    executor,             \* a SubagentExecutor.execute call: its agent, messages and position
    loader,               \* the definition files on disk and what the managers loaded from them
    clock,                \* the value datetime.now() returns
    faults                \* the calls so far in which a step raised

vars == <<sessions, messages, sqlite_sequence, logs, current_session_id,
          mem_message_count, open_handles, db_lock, calls, parser, checked,
          hook_manager, executor, loader, clock, faults>>

\* The threads of the caller that call save_message at the same time.
Writers == {1, 2}

\* The write lock of the database file is free, or held by the transaction of
\* a call, or by a connection of another process.
Free == 0
Other == 3

\* No concurrent call is under way.
NoCalls == [w \in Writers |-> [pc |-> "start", waited |-> 0, err |-> ""]]

\* BashSafetyParser() with no custom patterns, and no check_command call yet.
NoCustom == [custom_blocked |-> <<>>, custom_allowed |-> <<>>]
NoCheck == [made |-> FALSE, command |-> <<>>, safe |-> TRUE, reason |-> <<>>]

\* No HookManager has been made.
NoManager == [disabled |-> FALSE, hooks |-> <<>>, event |-> "", command |-> <<>>,
              made |-> FALSE, allowed |-> TRUE, message |-> <<>>, invoked |-> <<>>]

\* No subagent is executing.
NoExecutor == [pc |-> "idle"]

\* No definition file is on disk and nothing has been loaded.
NoLoader == [kind |-> ""]

\* The store a method reads and writes.
Store == [sessions |-> sessions, messages |-> messages,
          sqlite_sequence |-> sqlite_sequence, logs |-> logs,
          current_session_id |-> current_session_id,
          mem_message_count |-> mem_message_count,
          open_handles |-> open_handles]

\* The outcome of a method: the store it leaves, and its return value or the
\* exception it raises.
Return(st, val) == [st |-> st, ok |-> TRUE, err |-> "", val |-> val]
Raise(st, err) == [st |-> st, ok |-> FALSE, err |-> err, val |-> 0]

(***************************************************************************)
(* The values the callers pass.                                            *)
(***************************************************************************)
\* A str is the sequence of its characters.
\* save_message arguments (role, content, tool_calls, tool_results, token_count).
\* A list of tool calls/results is the sequence of its items; [] is <<>>.
Msgs == {
    [role |-> "user", content |-> <<"f", "i", "x", ".">>,
     tool_calls |-> NULL, tool_results |-> NULL, token_count |-> 2],
    [role |-> "assistant", content |-> <<"o", "k">>,
     tool_calls |-> <<"read_file">>, tool_results |-> <<>>, token_count |-> 1] }

\* update_title arguments.
Titles == { <<"T">>, <<>> }

\* create_session arguments (project_path, model); NULL is None.
CreateArgs == { [project_path |-> <<"/", "p">>, model |-> <<"m">>] }

(***************************************************************************)
(* _get_db: `yield conn; conn.commit()` inside try/finally conn.close().   *)
(* The statements of one `with self._get_db()` block take the tables from  *)
(* `before` to `after`; they are committed together when the block ends    *)
(* normally, and closing the connection without a commit discards them     *)
(* when a statement or the commit raises.                                  *)
(***************************************************************************)
\* get_db with a connection in autocommit mode: nothing is discarded.
get_db_autocommit(before, after, raises) == after

\* conn = sqlite3.connect(self.db_path, timeout=30)
connect(st) == [st EXCEPT !.open_handles = @ + 1]

\* conn.close()
close(st) == [st EXCEPT !.open_handles = @ - 1]

\* `conn.execute("PRAGMA journal_mode=WAL")` raises: the statement stands
\* between connect and `try`, so that no `finally` closes the connection.
pragma_raises(st) == Raise(connect(st), "OperationalError")

get_db(before, after, raises) ==
    close(IF raises THEN connect(before) ELSE connect(after))

(***************************************************************************)
(* create_session                                                          *)
(***************************************************************************)
\* The row the INSERT of create_session writes; the columns it does not name
\* take the defaults of the CREATE TABLE.
session_row(now, args, parent_session_id, branch_point) ==
    [created_at |-> now, updated_at |-> now, title |-> NULL,
     project_path |-> args.project_path, model |-> args.model,
     message_count |-> 0, token_count |-> 0,
     parent_session_id |-> parent_session_id, branch_point |-> branch_point,
     summary |-> NULL, tags |-> NULL, status |-> "active"]

\* mkdir(exist_ok=True) and touch(): an existing directory and file are kept
\* as they are.
touch_log(lg, session_id) ==
    IF session_id \in DOMAIN lg THEN lg ELSE (session_id :> <<>>) @@ lg

\* new_id is the value of str(uuid.uuid4())[:8].  fail: "none", "db" (the
\* INSERT or its commit raises) or "fs" (mkdir or touch raises).
create_session(st, new_id, args, parent_session_id, branch_point, now, fail) ==
    IF new_id \in DOMAIN st.sessions \/ fail = "db"
    THEN Raise(st, IF fail = "db" THEN "OperationalError" ELSE "IntegrityError")
    ELSE LET st1 == [st EXCEPT !.sessions =
                        (new_id :> session_row(now, args, parent_session_id,
                                               branch_point)) @@ @]
         IN IF fail = "fs"
            THEN Raise(st1, "OSError")
            ELSE Return([st1 EXCEPT !.logs = touch_log(@, new_id),
                                    !.current_session_id = new_id,
                                    !.mem_message_count = 0],
                        new_id)

(***************************************************************************)
(* load_messages                                                           *)
(***************************************************************************)
\* The text of a line that is no JSON value, in the place of its role: a
\* line a write left cut short, with no newline at its end (Torn), and such
\* a line with the text of a later write after it (Garbled).
Torn == "torn"
Garbled == "garbled"

\* json.loads(line) raises json.JSONDecodeError.
json_loads_raises(line) == line.role \in {Torn, Garbled}

\* load_messages raises: `messages.append(json.loads(line))` is in no try
\* block, so the first line that is no JSON value ends the read.
load_messages_raises(st, session_id) ==
    LET sid == IF session_id # NoId THEN session_id ELSE st.current_session_id
    IN /\ sid # NoId
       /\ sid \in DOMAIN st.logs
       /\ \E i \in 1..Len(st.logs[sid]) : json_loads_raises(st.logs[sid][i])

\* The list load_messages returns when it does not raise.
load_messages(st, session_id, limit, offset) ==
    LET sid == IF session_id # NoId THEN session_id ELSE st.current_session_id
    IN IF sid = NoId \/ sid \notin DOMAIN st.logs
       THEN <<>>
       ELSE LET all == st.logs[sid]
                skipped == IF offset # 0 THEN PySliceFrom(all, offset) ELSE all
            IN IF limit.given /\ limit.k # 0
               THEN PySliceTo(skipped, limit.k)
               ELSE skipped

(***************************************************************************)
(* update_title                                                            *)
(***************************************************************************)
\* UPDATE sessions SET title = ?, updated_at = ? WHERE id = ?
set_title(tbl, session_id, title, now) ==
    IF session_id \in DOMAIN tbl
    THEN [tbl EXCEPT ![session_id].title = title, ![session_id].updated_at = now]
    ELSE tbl

update_title(st, session_id, title, now, raises) ==
    LET st1 == get_db(st, [st EXCEPT !.sessions = set_title(@, session_id, title, now)],
                      raises)
    IN IF raises THEN Raise(st1, "OperationalError") ELSE Return(st1, 0)

(***************************************************************************)
(* _auto_generate_title                                                    *)
(***************************************************************************)
\* content[:50].split('\n')[0]
first_line(s) ==
    LET cut == PySliceTo(s, TitleChars)
        nl == {i \in 1..Len(cut) : cut[i] = "\n"}
    IN IF nl = {} THEN cut ELSE SubSeq(cut, 1, Min(nl) - 1)

\* title.rstrip('.!?')
RECURSIVE rstrip(_)
rstrip(s) ==
    IF s # <<>> /\ s[Len(s)] \in {".", "!", "?"}
    THEN rstrip(SubSeq(s, 1, Len(s) - 1))
    ELSE s

title_of(content) ==
    LET title == first_line(content)
    IN IF Len(title) < Len(content)
       THEN rstrip(title) \o <<".", ".", ".">>
       ELSE title

auto_generate_title(st, session_id, now, raises) ==
    LET msgs == load_messages(st, session_id, SomeArg(TitleScan), 0)
        users == {i \in 1..Len(msgs) : msgs[i].role = "user"}
    IN IF load_messages_raises(st, session_id)
       THEN Raise(st, "JSONDecodeError")
       ELSE IF users = {}
       THEN Return(st, 0)
       ELSE update_title(st, session_id, title_of(msgs[Min(users)].content), now, raises)

(***************************************************************************)
(* save_message                                                            *)
(***************************************************************************)
\* message_data: the dict written as one line of messages.jsonl.  The keys
\* tool_calls and tool_results are written only when the argument is truthy;
\* NULL stands for an absent key.
message_data(m, now) ==
    [role |-> m.role, content |-> m.content, timestamp |-> now,
     token_count |-> m.token_count,
     tool_calls |-> IF Truthy(m.tool_calls) THEN m.tool_calls ELSE NULL,
     tool_results |-> IF Truthy(m.tool_results) THEN m.tool_results ELSE NULL]

\* append_jsonl opening the file with 'w': the line replaces the file.
append_jsonl_truncate(lines, data) == <<data>>

\* open(jsonl_path, 'a'); f.write(json.dumps(message_data) + '\n').  After a
\* line with no newline at its end the text goes on that line.
append_jsonl(lines, data) ==
    IF lines # <<>> /\ lines[Len(lines)].role = Torn
    THEN [lines EXCEPT ![Len(lines)].role = Garbled]
    ELSE Append(lines, data)

\* json.dumps(list): the JSON text of a list, kept apart from the list itself.
json_dumps(v) == <<"json">> \o v

\* The row INSERT INTO messages writes.
messages_row(id, sid, m, now) ==
    [id |-> id, session_id |-> sid, role |-> m.role, content |-> m.content,
     tool_calls |-> IF Truthy(m.tool_calls) THEN json_dumps(m.tool_calls) ELSE NULL,
     tool_results |-> IF Truthy(m.tool_results) THEN json_dumps(m.tool_results) ELSE NULL,
     timestamp |-> now, token_count |-> m.token_count]

\* UPDATE sessions SET updated_at = ?, message_count = message_count + 1,
\* token_count = token_count + ? WHERE id = ?
bump_counts(tbl, sid, now, token_count) ==
    IF sid \in DOMAIN tbl
    THEN [tbl EXCEPT ![sid].updated_at = now,
                     ![sid].message_count = @ + 1,
                     ![sid].token_count = @ + token_count]
    ELSE tbl

\* f.write cut short (the disk is full, or the process is killed): the
\* line holds the beginning of its text and no newline.
torn_write(lines, data) ==
    IF lines # <<>> /\ lines[Len(lines)].role = Torn
    THEN lines
    ELSE Append(lines, [data EXCEPT !.role = Torn])

\* The value save_message returns: cursor.lastrowid of the INSERT.
message_id(st) == st.sqlite_sequence

\* The first part of save_message: the line is appended to the log.
append_log(st, m, sid, now) ==
    [st EXCEPT !.logs[sid] = append_jsonl(@, message_data(m, now))]

\* The second part of save_message, on the store st1 the first part left:
\* the `with self._get_db()` block, the in-memory counter and the title.
index_message(st1, m, sid, now, fail) ==
    LET st2 == get_db(st1,
                      [st1 EXCEPT
                         !.messages = Append(@, messages_row(st1.sqlite_sequence + 1,
                                                             sid, m, now)),
                         !.sqlite_sequence = @ + 1,
                         !.sessions = bump_counts(@, sid, now, m.token_count)],
                      fail = "index")
    IN IF fail = "index"
       THEN Raise(st2, "OperationalError")
       ELSE
         LET st3 == [st2 EXCEPT !.mem_message_count = @ + 1]
             titled == IF st3.mem_message_count = TitleAt
                       THEN auto_generate_title(st3, sid, now, fail = "title")
                       ELSE Return(st3, 0)
         IN IF titled.ok
            THEN Return(titled.st, message_id(st2))
            ELSE titled

\* The body of save_message after `sid` is resolved.
\* fail: "none", "log" (the write to the log is cut short and raises),
\* "index" (a statement of the `with self._get_db()` block or its commit
\* raises) or "title" (the UPDATE of _auto_generate_title raises).
write_message(st, m, sid, now, fail) ==
    IF sid \notin DOMAIN st.logs
    THEN Raise(st, "FileNotFoundError")
    ELSE IF fail = "log"
    THEN Raise([st EXCEPT !.logs[sid] = torn_write(@, message_data(m, now))], "OSError")
    ELSE index_message(append_log(st, m, sid, now), m, sid, now, fail)

\* save_message without the `if not sid` check.
save_message_unchecked(st, m, session_id, now, fail) ==
    write_message(st, m,
                  IF session_id # NoId THEN session_id ELSE st.current_session_id,
                  now, fail)

save_message(st, m, session_id, now, fail) ==
    LET sid == IF session_id # NoId THEN session_id ELSE st.current_session_id
    IN IF sid = NoId
       THEN Raise(st, "ValueError")
       ELSE write_message(st, m, sid, now, fail)

(***************************************************************************)
(* load_session                                                            *)
(***************************************************************************)
\* Returns the id for `dict(row)` and NoId for None.
\* load_session that sets the current session before it looks for the row.
load_session_eager(st, session_id, raises) ==
    IF raises
    THEN Raise(st, "OperationalError")
    ELSE LET st1 == [st EXCEPT !.current_session_id = session_id,
                               !.mem_message_count = 0]
         IN IF session_id \notin DOMAIN st.sessions
            THEN Return(st1, NoId)
            ELSE Return([st1 EXCEPT !.mem_message_count =
                                       st.sessions[session_id].message_count],
                        session_id)

\* load_session selecting `WHERE id = ? AND status = 'active'`.
load_session_active_only(st, session_id, raises) ==
    IF raises
    THEN Raise(st, "OperationalError")
    ELSE IF session_id \notin DOMAIN st.sessions
            \/ st.sessions[session_id].status # "active"
    THEN Return(st, NoId)
    ELSE Return([st EXCEPT !.current_session_id = session_id,
                           !.mem_message_count = st.sessions[session_id].message_count],
                session_id)

load_session(st, session_id, raises) ==
    IF raises
    THEN Raise(st, "OperationalError")
    ELSE IF session_id \notin DOMAIN st.sessions
    THEN Return(st, NoId)
    ELSE Return([st EXCEPT !.current_session_id = session_id,
                           !.mem_message_count = st.sessions[session_id].message_count],
                session_id)

(***************************************************************************)
(* list_sessions, get_most_recent_session, search_sessions                 *)
(***************************************************************************)
\* limit: int = 10
DefaultLimit == 10

\* SQL `LIMIT n`: a negative n is no limit.
sql_limit(s, n) == IF n < 0 THEN s ELSE SubSeq(s, 1, Min2(n, Len(s)))

\* The ids of the rows `WHERE status = ?`, `AND project_path = ?` added when
\* the argument is truthy.
list_where(st, status, project_path) ==
    {id \in DOMAIN st.sessions :
        /\ st.sessions[id].status = status
        /\ Truthy(project_path) => st.sessions[id].project_path = project_path}

\* order_by_updated without the ORDER BY: the rows in any order.
order_by_any(st, ids) ==
    {s \in [1..Cardinality(ids) -> ids] :
        \A i, j \in 1..Cardinality(ids) : i # j => s[i] # s[j]}

\* `ORDER BY updated_at DESC`: every order of the rows in which no row comes
\* before a row updated later; rows updated at the same time come in any
\* order.
order_by_updated(st, ids) ==
    {s \in [1..Cardinality(ids) -> ids] :
        /\ \A i, j \in 1..Cardinality(ids) : i # j => s[i] # s[j]
        /\ \A i, j \in 1..Cardinality(ids) :
              i < j => st.sessions[s[i]].updated_at >= st.sessions[s[j]].updated_at}

\* The lists list_sessions can return; a row `dict(row)` is the id of the row.
list_sessions(st, limit, status, project_path) ==
    {sql_limit(s, limit) : s \in order_by_updated(st, list_where(st, status, project_path))}

\* The values get_most_recent_session can return; NoId is None.
get_most_recent_session(st) ==
    {IF s = <<>> THEN NoId ELSE s[1] : s \in list_sessions(st, 1, "active", NULL)}

\* The characters the FTS5 tokenizer takes as separators, among those used.
Separators == {" ", ".", "!", "?", "\n"}

\* The runs of a text: its maximal stretches of characters that are no
\* separators, as <<first, last>>.
token_runs(text) ==
    {x \in (1..Len(text)) \X (1..Len(text)) :
        /\ x[1] <= x[2]
        /\ \A k \in x[1]..x[2] : text[k] \notin Separators
        /\ x[1] = 1 \/ text[x[1] - 1] \in Separators
        /\ x[2] = Len(text) \/ text[x[2] + 1] \in Separators}

\* The tokens of a text.
fts_tokens(text) == {SubSeq(text, x[1], x[2]) : x \in token_runs(text)}

\* How often the token query stands in a text, and the tokens of the text.
term_count(text, query) ==
    Cardinality({x \in token_runs(text) : SubSeq(text, x[1], x[2]) = query})

doc_len(text) == Cardinality(token_runs(text))

\* The tokens of all the rows of messages_fts.
RECURSIVE fts_size(_)
fts_size(rows) ==
    IF rows = <<>> THEN 0 ELSE doc_len(Head(rows).content) + fts_size(Tail(rows))

\* `LEFT JOIN sessions s`: a message with no session row is joined to NULLs.
left_join_sessions(st, sid) ==
    IF sid \in DOMAIN st.sessions
    THEN {[title |-> st.sessions[sid].title,
           project_path |-> st.sessions[sid].project_path]}
    ELSE {[title |-> NULL, project_path |-> NULL]}

\* `JOIN sessions s ON m.session_id = s.id`: the columns of the session row
\* a message row is joined to, none when the session has no row.
join_sessions(st, sid) ==
    IF sid \in DOMAIN st.sessions
    THEN {[title |-> st.sessions[sid].title,
           project_path |-> st.sessions[sid].project_path]}
    ELSE {}

\* The rows of the search: messages_fts JOIN messages JOIN sessions WHERE
\* messages_fts MATCH query, for a query of one token.  The FTS table follows
\* table messages through the triggers messages_ai and messages_ad.  A hit
\* stands for its row of the result with the rowid in the place of the
\* snippet: two messages of one session are two hits.
search_hits(st, query) ==
    UNION {{[session_id |-> st.messages[i].session_id, role |-> st.messages[i].role,
             rowid |-> st.messages[i].id, timestamp |-> st.messages[i].timestamp,
             title |-> s.title, project_path |-> s.project_path] :
               s \in join_sessions(st, st.messages[i].session_id)} :
        i \in {k \in 1..Len(st.messages) :
                  query \in fts_tokens(st.messages[k].content)}}

\* The content of the row of messages_fts with a rowid.
fts_content(st, rowid) ==
    st.messages[CHOOSE i \in 1..Len(st.messages) : st.messages[i].id = rowid].content

\* rank is -bm25 with k1 = 1.2 and b = 0.75: for a query of one token the
\* score of a row grows with tf / (tf + k1 * (1 - b + b * dl / avgdl)), tf the
\* count of the token in the row, dl the tokens of the row and avgdl those of
\* the average row.  Row a has the better rank than row b when its score is
\* the greater, which in whole numbers is
\* tf_a * (T + 3 * N * dl_b) > tf_b * (T + 3 * N * dl_a), T the tokens of the
\* table and N its rows.
ranks_before(st, query, a, b) ==
    LET T == fts_size(st.messages)
        N == Len(st.messages)
        ca == fts_content(st, a.rowid)
        cb == fts_content(st, b.rowid)
    IN term_count(ca, query) * (T + 3 * N * doc_len(cb))
           > term_count(cb, query) * (T + 3 * N * doc_len(ca))

\* `ORDER BY rank`: every order of the hits in which no hit comes before a
\* hit of better rank; hits of one rank come in any order.
order_by_rank(st, query, hits) ==
    {s \in [1..Cardinality(hits) -> hits] :
        /\ \A i, j \in 1..Cardinality(hits) : i # j => s[i] # s[j]
        /\ \A i, j \in 1..Cardinality(hits) :
              i < j => ~ranks_before(st, query, s[j], s[i])}

\* limit: int = 20
SearchLimit == 20

\* The lists search_sessions can return.
search_sessions(st, query, limit) ==
    {sql_limit(s, limit) : s \in order_by_rank(st, query, search_hits(st, query))}

(***************************************************************************)
(* update_status, delete_session                                           *)
(***************************************************************************)
\* update_status with `SET updated_at = ?` alone.
update_status_keep(st, session_id, status, now, raises) ==
    LET after == [st EXCEPT !.sessions =
                     IF session_id \in DOMAIN @
                     THEN [@ EXCEPT ![session_id].updated_at = now]
                     ELSE @]
    IN IF raises THEN Raise(get_db(st, after, TRUE), "OperationalError")
       ELSE Return(get_db(st, after, FALSE), 0)

update_status(st, session_id, status, now, raises) ==
    LET after == [st EXCEPT !.sessions =
                     IF session_id \in DOMAIN @
                     THEN [@ EXCEPT ![session_id].status = status,
                                    ![session_id].updated_at = now]
                     ELSE @]
    IN IF raises THEN Raise(get_db(st, after, TRUE), "OperationalError")
       ELSE Return(get_db(st, after, FALSE), 0)

Without(f, x) == [y \in DOMAIN f \ {x} |-> f[y]]

\* DELETE FROM messages WHERE session_id = ?
\* delete_rows without the DELETE.
delete_rows_none(rows, session_id) == rows

delete_rows(rows, session_id) == SelectSeq(rows, LAMBDA r : r.session_id # session_id)

\* fail: "none", "db" (a DELETE or the commit raises), "fs" (shutil.rmtree
\* raises with the directory left whole) or "fs_file" (shutil.rmtree raises
\* after it removed messages.jsonl: the directory is left, with no lines).
delete_session(st, session_id, hard, now, fail) ==
    IF ~hard
    THEN update_status(st, session_id, "deleted", now, fail = "db")
    ELSE IF fail = "db"
    THEN Raise(st, "OperationalError")
    ELSE LET st1 == [st EXCEPT !.messages = delete_rows(@, session_id),
                               !.sessions = Without(@, session_id)]
         IN IF session_id \notin DOMAIN st1.logs
            THEN Return(st1, 0)
            ELSE IF fail = "fs"
            THEN Raise(st1, "OSError")
            ELSE IF fail = "fs_file"
            THEN Raise([st1 EXCEPT !.logs[session_id] = <<>>], "OSError")
            ELSE Return([st1 EXCEPT !.logs = Without(@, session_id)], 0)

(***************************************************************************)
(* branch_session                                                          *)
(***************************************************************************)
\* The arguments branch_session passes to save_message for one loaded line:
\* msg["role"], msg.get("content", ""), msg.get("tool_calls"),
\* msg.get("tool_results"), msg.get("token_count", 0).
copy_args(msg) ==
    [role |-> msg.role, content |-> msg.content, tool_calls |-> msg.tool_calls,
     tool_results |-> msg.tool_results, token_count |-> msg.token_count]

\* `messages = messages[:at_message]` when at_message is not None.
\* branch_messages without the slice.
branch_messages_all(all, at_message) == all

branch_messages(all, at_message) ==
    IF at_message.given THEN PySliceTo(all, at_message.k) ELSE all

\* `branch_point = len(messages)`
\* branch_point_of counting one message more than were kept.
branch_point_next(msgs) == Len(msgs) + 1

branch_point_of(msgs) == Len(msgs)

\* `session_id=new_session_id` of the copying save_message.
\* copy_target with the session_id argument left out of the copying call.
copy_target_source(sid, new_session_id) == sid

copy_target(sid, new_session_id) == new_session_id

\* f"{original['title']} (branch)"
\* branch_title without the suffix.
branch_title_plain(title) == title

branch_title(title) == title \o <<" ", "(", "b", "r", "a", "n", "c", "h", ")">>

\* What the i-th call of the copy loop does wrong, if anything.
copy_fail(fail, i) == IF fail.step = "copy" /\ fail.n = i THEN fail.kind ELSE "none"

\* `for msg in messages: self.save_message(..., session_id=new_session_id)`
RECURSIVE copy_messages(_, _, _, _, _, _, _)
copy_messages(st, msgs, i, sid, new_session_id, now, fail) ==
    IF i > Len(msgs)
    THEN Return(st, 0)
    ELSE LET r == save_message(st, copy_args(msgs[i]),
                               copy_target(sid, new_session_id), now,
                               copy_fail(fail, i))
         IN IF r.ok
            THEN copy_messages(r.st, msgs, i + 1, sid, new_session_id, now, fail)
            ELSE r

\* fail = [step, n, kind]: the step that raises ("none", "load", "create",
\* "copy", "title"); for "create" kind is the failure of create_session, for
\* "copy" n is the call of the loop and kind the failure of save_message.
branch_session(st, session_id, at_message, new_id, now, fail) ==
    LET sid == IF session_id # NoId THEN session_id ELSE st.current_session_id
    IN IF sid = NoId
       THEN Raise(st, "ValueError")
       ELSE
         LET original == load_session(st, sid, fail.step = "load")
         IN IF ~original.ok
            THEN original
            ELSE IF original.val = NoId
            THEN Raise(original.st, "ValueError")
            ELSE IF load_messages_raises(original.st, sid)
            THEN Raise(original.st, "JSONDecodeError")
            ELSE
              LET row == original.st.sessions[sid]
                  msgs == branch_messages(load_messages(original.st, sid, NoneArg, 0),
                                          at_message)
                  created == create_session(original.st, new_id,
                                 [project_path |-> row.project_path, model |-> row.model],
                                 sid, branch_point_of(msgs), now,
                                 IF fail.step = "create" THEN fail.kind ELSE "none")
              IN IF ~created.ok
                 THEN created
                 ELSE
                   LET copied == copy_messages(created.st, msgs, 1, sid, created.val,
                                               now, fail)
                   IN IF ~copied.ok
                      THEN copied
                      ELSE IF Truthy(row.title)
                      THEN LET t == update_title(copied.st, created.val,
                                                 branch_title(row.title), now,
                                                 fail.step = "title")
                           IN IF t.ok THEN Return(t.st, created.val) ELSE t
                      ELSE Return(copied.st, created.val)

(***************************************************************************)
(* json.dumps and json.loads of the values export_session writes.  A JSON  *)
(* text is the sequence of its characters; an object is kept as the record *)
(* of the texts of its values.                                             *)
(***************************************************************************)
js_null == <<"n", "u", "l", "l">>

\* The characters of a string inside its quotes.
RECURSIVE escape(_)
escape(s) ==
    IF s = <<>> THEN <<>>
    ELSE (IF s[1] = "\n" THEN <<"\\", "n">>
          ELSE IF s[1] \in {"\"", "\\"} THEN <<"\\", s[1]>>
          ELSE <<s[1]>>) \o escape(Tail(s))

RECURSIVE unescape(_)
unescape(t) ==
    IF t = <<>> THEN <<>>
    ELSE IF t[1] = "\\"
    THEN <<IF t[2] = "n" THEN "\n" ELSE t[2]>> \o unescape(SubSeq(t, 3, Len(t)))
    ELSE <<t[1]>> \o unescape(Tail(t))

js_string(s) == <<"\"">> \o escape(s) \o <<"\"">>

parse_string(t) == unescape(SubSeq(t, 2, Len(t) - 1))

\* A string the model keeps whole: an id, a timestamp, a role, a status, the
\* name of a tool.
js_atom(a) == <<"\"", a, "\"">>

parse_atom(t) == t[2]

\* dumps_optional writing None as the string "None".
dumps_optional_str(v) ==
    IF v = NULL THEN js_string(<<"N", "o", "n", "e">>) ELSE js_string(v)

\* A value that is a string or None.
dumps_optional(v) == IF v = NULL THEN js_null ELSE js_string(v)

loads_optional(t) == IF t = js_null THEN NULL ELSE parse_string(t)

\* An integer column; `none` is the value that stands for None.
dumps_integer(n, none) == IF n = none THEN js_null ELSE <<n>>

loads_integer(t, none) == IF t = js_null THEN none ELSE t[1]

\* A list of strings, or no key at all (NULL).
dumps_list(v) == IF v = NULL THEN NULL ELSE [i \in 1..Len(v) |-> js_atom(v[i])]

loads_list(t) == IF t = NULL THEN NULL ELSE [i \in 1..Len(t) |-> parse_atom(t[i])]

\* dict(row) of a session row; the id columns and the timestamps are strings.
dumps_session(row) ==
    [created_at |-> js_atom(row.created_at),
     updated_at |-> js_atom(row.updated_at),
     title |-> dumps_optional(row.title),
     project_path |-> dumps_optional(row.project_path),
     model |-> dumps_optional(row.model),
     message_count |-> dumps_integer(row.message_count, NullInt),
     token_count |-> dumps_integer(row.token_count, NullInt),
     parent_session_id |-> IF row.parent_session_id = NoId THEN js_null
                           ELSE js_atom(row.parent_session_id),
     branch_point |-> dumps_integer(row.branch_point, NullInt),
     summary |-> dumps_optional(row.summary),
     tags |-> dumps_optional(row.tags),
     status |-> js_atom(row.status)]

loads_session(t) ==
    [created_at |-> parse_atom(t.created_at),
     updated_at |-> parse_atom(t.updated_at),
     title |-> loads_optional(t.title),
     project_path |-> loads_optional(t.project_path),
     model |-> loads_optional(t.model),
     message_count |-> loads_integer(t.message_count, NullInt),
     token_count |-> loads_integer(t.token_count, NullInt),
     parent_session_id |-> IF t.parent_session_id = js_null THEN NoId
                           ELSE parse_atom(t.parent_session_id),
     branch_point |-> loads_integer(t.branch_point, NullInt),
     summary |-> loads_optional(t.summary),
     tags |-> loads_optional(t.tags),
     status |-> parse_atom(t.status)]

\* One message of the list load_messages returned.
dumps_message(msg) ==
    [role |-> js_atom(msg.role),
     content |-> js_string(msg.content),
     timestamp |-> js_atom(msg.timestamp),
     token_count |-> <<msg.token_count>>,
     tool_calls |-> dumps_list(msg.tool_calls),
     tool_results |-> dumps_list(msg.tool_results)]

loads_message(t) ==
    [role |-> parse_atom(t.role),
     content |-> parse_string(t.content),
     timestamp |-> parse_atom(t.timestamp),
     token_count |-> t.token_count[1],
     tool_calls |-> loads_list(t.tool_calls),
     tool_results |-> loads_list(t.tool_results)]

\* json.dumps({"session": info, "messages": messages}, indent=2); has_row
\* tells a row from None.
dumps_export(has_row, info, msgs) ==
    [has_row |-> has_row,
     session |-> IF has_row THEN dumps_session(info) ELSE js_null,
     messages |-> [i \in 1..Len(msgs) |-> dumps_message(msgs[i])]]

\* json.loads of that text.
loads_export(t) ==
    [session |-> IF t.has_row THEN loads_session(t.session) ELSE NULL,
     messages |-> [i \in 1..Len(t.messages) |-> loads_message(t.messages[i])]]

(***************************************************************************)
(* get_session_info, export_session                                        *)
(***************************************************************************)
\* The row of the session, or NULL (None).
get_session_info(st, session_id) ==
    LET sid == IF session_id # NoId THEN session_id ELSE st.current_session_id
    IN IF sid = NoId \/ sid \notin DOMAIN st.sessions
       THEN NULL
       ELSE st.sessions[sid]

Formats == {"markdown", "json"}

\* msg.get("role", "unknown").upper()
upper(role) ==
    CASE role = "user" -> "USER"
      [] role = "assistant" -> "ASSISTANT"
      [] role = "system" -> "SYSTEM"
      [] role = "tool" -> "TOOL"
      [] OTHER -> "UNKNOWN"

\* The text export_session returns, as the values it is made of.  The read
\* of the log raises what load_messages raises.  With no
\* row, info is None: json.dumps writes it as null, and the markdown branch
\* raises AttributeError at its first info.get.
export_session(st, session_id, format) ==
    LET sid == IF session_id # NoId THEN session_id ELSE st.current_session_id
    IN IF sid = NoId
       THEN Raise(st, "ValueError")
       ELSE LET info == get_session_info(st, sid)
                msgs == load_messages(st, sid, NoneArg, 0)
            IN IF load_messages_raises(st, sid)
               THEN Raise(st, "JSONDecodeError")
               ELSE IF format = "json"
               THEN Return(st, dumps_export(sid \in DOMAIN st.sessions, info, msgs))
               ELSE IF sid \notin DOMAIN st.sessions
               THEN Raise(st, "AttributeError")
               ELSE Return(st,
                      [format |-> "markdown",
                       title |-> IF Truthy(info.title) THEN info.title ELSE <<sid>>,
                       created_at |-> info.created_at,
                       project_path |-> IF Truthy(info.project_path)
                                        THEN info.project_path ELSE <<"N/A">>,
                       model |-> IF Truthy(info.model) THEN info.model ELSE <<"N/A">>,
                       message_count |-> info.message_count,
                       sections |-> [k \in 1..Len(msgs) |->
                                       [role |-> upper(msgs[k].role),
                                        timestamp |-> msgs[k].timestamp,
                                        content |-> msgs[k].content,
                                        tool_calls |-> IF Truthy(msgs[k].tool_calls)
                                                       THEN json_dumps(msgs[k].tool_calls)
                                                       ELSE NULL]]])

(***************************************************************************)
(* The state machine: one SessionManager over one base directory, called   *)
(* by one caller, one call at a time.                                      *)
(***************************************************************************)
Init ==
    /\ sessions = <<>>
    /\ messages = <<>>
    /\ sqlite_sequence = 0
    /\ logs = <<>>
    /\ current_session_id = NoId
    /\ mem_message_count = 0
    /\ open_handles = 0
    /\ clock = 0
    /\ faults = 0
    /\ db_lock = Free
    /\ calls = NoCalls
    /\ parser = NoCustom
    /\ checked = NoCheck
    /\ hook_manager = NoManager
    /\ executor = NoExecutor
    /\ loader = NoLoader

\* A step is made to raise only in a call that reaches it (the outcome r
\* differs from the outcome r0 of the same call with no step raising).  A call
\* that raises and leaves the store as it was is a stuttering step; a call that
\* raises and leaves a changed store happens in at most MaxFaults calls of a
\* behaviour.
Faulty(failing, r, r0) ==
    IF failing /\ r.st # Store
    THEN faults < MaxFaults /\ r # r0 /\ faults' = faults + 1
    ELSE (failing => r # r0) /\ faults' = faults

\* A call, or a part of one, leaves the store of outcome r.
Leaves(r) ==
    /\ sessions' = r.st.sessions
    /\ messages' = r.st.messages
    /\ sqlite_sequence' = r.st.sqlite_sequence
    /\ logs' = r.st.logs
    /\ current_session_id' = r.st.current_session_id
    /\ mem_message_count' = r.st.mem_message_count
    /\ open_handles' = r.st.open_handles

\* A call ends with outcome r.
Ends(r) ==
    /\ Leaves(r)
    /\ UNCHANGED <<clock, parser, checked, db_lock, calls, hook_manager, executor, loader>>

\* session_id or self.current_session_id
Resolve(session_id) == IF session_id # NoId THEN session_id ELSE current_session_id

\* The values of an Optional session_id argument: None, and every id but the
\* current one (the methods replace None by the current id in their first
\* line, so passing the current id is the call with None).
SessionArgs == {NoId} \cup (Ids \ {current_session_id})

LogLen(sid) == IF sid \in DOMAIN logs THEN Len(logs[sid]) ELSE 0

\* SessionManager(base_dir) on the directory as it is: a new process.
NewManager ==
    /\ current_session_id' = NoId
    /\ mem_message_count' = 0
    /\ open_handles' = 0
    /\ UNCHANGED <<sessions, messages, sqlite_sequence, logs, db_lock, calls, clock, parser, checked, faults, hook_manager, executor, loader>>

CreateSession ==
    \E new_id \in Ids, args \in CreateArgs, fail \in {"none", "db", "fs"} :
        /\ Faulty(fail # "none",
                  create_session(Store, new_id, args, NoId, NullInt, clock, fail),
                  create_session(Store, new_id, args, NoId, NullInt, clock, "none"))
        /\ Ends(create_session(Store, new_id, args, NoId, NullInt, clock, fail))

SaveMessage(rows) ==
    \E m \in Msgs, session_id \in SessionArgs, fail \in {"none", "index", "title"} :
        /\ sqlite_sequence < rows
        /\ Faulty(fail # "none",
                  save_message(Store, m, session_id, clock, fail),
                  save_message(Store, m, session_id, clock, "none"))
        /\ Ends(save_message(Store, m, session_id, clock, fail))

\* save_message with the write to the log cut short.
TornSave ==
    \E m \in Msgs, session_id \in SessionArgs :
        /\ Faulty(TRUE, save_message(Store, m, session_id, clock, "log"),
                  save_message(Store, m, session_id, clock, "none"))
        /\ Ends(save_message(Store, m, session_id, clock, "log"))

LoadSession ==
    \E session_id \in Ids, raises \in BOOLEAN :
        /\ Faulty(raises, load_session(Store, session_id, raises),
                  load_session(Store, session_id, FALSE))
        /\ Ends(load_session(Store, session_id, raises))

UpdateTitle ==
    \E session_id \in Ids, title \in Titles, raises \in BOOLEAN :
        /\ Faulty(raises, update_title(Store, session_id, title, clock, raises),
                  update_title(Store, session_id, title, clock, FALSE))
        /\ Ends(update_title(Store, session_id, title, clock, raises))

Statuses == {"active", "archived", "deleted"}

UpdateStatus ==
    \E session_id \in Ids, status \in Statuses, raises \in BOOLEAN :
        /\ Faulty(raises, update_status(Store, session_id, status, clock, raises),
                  update_status(Store, session_id, status, clock, FALSE))
        /\ Ends(update_status(Store, session_id, status, clock, raises))

DeleteSession ==
    \E session_id \in Ids, hard \in {TRUE}, fail \in {"none", "db", "fs", "fs_file"} :
        /\ Faulty(fail # "none",
                  delete_session(Store, session_id, hard, clock, fail),
                  delete_session(Store, session_id, hard, clock, "none"))
        /\ Ends(delete_session(Store, session_id, hard, clock, fail))

\* delete_session(session_id): hard=False.
SoftDelete ==
    \E session_id \in Ids, fail \in {"none", "db"} :
        /\ Faulty(fail # "none",
                  delete_session(Store, session_id, FALSE, clock, fail),
                  delete_session(Store, session_id, FALSE, clock, "none"))
        /\ Ends(delete_session(Store, session_id, FALSE, clock, fail))

NoFail == [step |-> "none", n |-> 0, kind |-> "none"]

\* The lines branch_session copies, and the title it composes, in this state.
BranchCopies(sid, at_message) ==
    IF sid \in DOMAIN sessions
    THEN Len(branch_messages(load_messages(Store, sid, NoneArg, 0), at_message))
    ELSE 0
BranchTitleLen(sid) ==
    IF sid \in DOMAIN sessions /\ Truthy(sessions[sid].title)
    THEN Len(branch_title(sessions[sid].title))
    ELSE 0

\* The steps of one branch_session call that can raise.
BranchFails(copies) ==
    {NoFail,
     [step |-> "load", n |-> 0, kind |-> "none"],
     [step |-> "create", n |-> 0, kind |-> "db"],
     [step |-> "create", n |-> 0, kind |-> "fs"],
     [step |-> "title", n |-> 0, kind |-> "none"]}
    \cup {[step |-> "copy", n |-> i, kind |-> k] : i \in 1..copies, k \in {"index", "title"}}

\* at_message: None, and every integer from -1 to one more than the lines of
\* the source (at_message is not read when there is no source).
AtArgs(sid) ==
    {NoneArg} \cup
    (IF sid \in DOMAIN sessions THEN {SomeArg(k) : k \in -1..(LogLen(sid) + 1)} ELSE {})

BranchSession(rows) ==
    \E session_id \in SessionArgs, new_id \in Ids :
      \E at_message \in AtArgs(Resolve(session_id)) :
        /\ sqlite_sequence + BranchCopies(Resolve(session_id), at_message) <= rows
        /\ BranchTitleLen(Resolve(session_id)) <= MaxTitleLen
        /\ \E fail \in BranchFails(BranchCopies(Resolve(session_id), at_message)) :
            /\ Faulty(fail # NoFail,
                      branch_session(Store, session_id, at_message, new_id, clock, fail),
                      branch_session(Store, session_id, at_message, new_id, clock, NoFail))
            /\ Ends(branch_session(Store, session_id, at_message, new_id, clock, fail))

\* Time passes.
Tick ==
    /\ clock < MaxClock
    /\ clock' = clock + 1
    /\ UNCHANGED <<sessions, messages, sqlite_sequence, logs, current_session_id,
                   mem_message_count, open_handles, db_lock, calls, parser, checked,
                   hook_manager, executor, loader, faults>>

(***************************************************************************)
(* Spec: every method, from the empty base directory.                      *)
(***************************************************************************)
Next ==
    \/ NewManager
    \/ CreateSession
    \/ SaveMessage(MaxRowId)
    \/ LoadSession
    \/ DeleteSession
    \/ BranchSession(MaxRowId)

Spec == Init /\ [][Next]_vars

(***************************************************************************)
(* SpecBranch: branching, from a store that holds one session with up to   *)
(* MaxSeed messages and, possibly, the directory a failed hard delete of   *)
(* another session left behind.  The store it starts with is the outcome   *)
(* of the calls that build it.                                             *)
(***************************************************************************)
EmptyStore == [sessions |-> <<>>, messages |-> <<>>, sqlite_sequence |-> 0,
               logs |-> <<>>, current_session_id |-> NoId, mem_message_count |-> 0,
               open_handles |-> 0]

\* save_message(m) for every m of ms, on the current session.
RECURSIVE SaveAll(_, _, _)
SaveAll(st, ms, i) ==
    IF i > Len(ms) THEN st
    ELSE SaveAll(save_message(st, ms[i], NoId, 0, "none").st, ms, i + 1)

SeedArgs == CHOOSE a \in CreateArgs : TRUE

\* create_session(); save_message(m) for m in ms.
Seed(id, st, ms) ==
    SaveAll(create_session(st, id, SeedArgs, NoId, NullInt, 0, "none").st, ms, 1)

\* The same, and then delete_session(id, hard=True) with rmtree raising.
Leftover(id, st, ms) == delete_session(Seed(id, st, ms), id, TRUE, 0, "fs").st

\* The same, and then update_title(id, title), or no such call for NULL.
Titled(id, st, title) ==
    IF title = NULL THEN st ELSE update_title(st, id, title, 0, FALSE).st

SeedMsgs == UNION {[1..n -> Msgs] : n \in 0..MaxSeed}

Seeds ==
    {Titled(1, Seed(1, before, ms), title) :
        before \in {EmptyStore} \cup {Leftover(2, EmptyStore, <<m>>) : m \in Msgs},
        ms \in SeedMsgs,
        title \in {NULL} \cup Titles}

InitBranch ==
    /\ \E seed \in Seeds :
        /\ sessions = seed.sessions
        /\ messages = seed.messages
        /\ sqlite_sequence = seed.sqlite_sequence
        /\ logs = seed.logs
        /\ current_session_id = seed.current_session_id
        /\ mem_message_count = seed.mem_message_count
        /\ open_handles = seed.open_handles
    /\ clock = 0
    /\ faults = 0
    /\ db_lock = Free
    /\ calls = NoCalls
    /\ parser = NoCustom
    /\ checked = NoCheck
    /\ hook_manager = NoManager
    /\ executor = NoExecutor
    /\ loader = NoLoader

BranchRows == 2 * MaxSeed + 2

NextBranch ==
    \/ BranchSession(BranchRows)
    \/ Tick

SpecBranch == InitBranch /\ [][NextBranch]_vars

(***************************************************************************)
(* SpecList: statuses, soft and hard delete, listing and search, with time *)
(* passing.  The store it starts with holds one or two new sessions, of    *)
(* the same or of different projects, or of none.                          *)
(***************************************************************************)
ListArgs == { [project_path |-> <<"/", "p">>, model |-> <<"m">>],
              [project_path |-> <<"/", "q">>, model |-> <<"m">>],
              [project_path |-> NULL, model |-> NULL] }

ListSeeds ==
    {create_session(EmptyStore, 1, a, NoId, NullInt, 0, "none").st : a \in ListArgs}
    \cup {create_session(create_session(EmptyStore, 1, a, NoId, NullInt, 0, "none").st,
                         2, b, NoId, NullInt, 0, "none").st : a, b \in ListArgs}

InitList ==
    /\ \E seed \in ListSeeds :
        /\ sessions = seed.sessions
        /\ messages = seed.messages
        /\ sqlite_sequence = seed.sqlite_sequence
        /\ logs = seed.logs
        /\ current_session_id = seed.current_session_id
        /\ mem_message_count = seed.mem_message_count
        /\ open_handles = seed.open_handles
    /\ clock = 0
    /\ faults = 0
    /\ db_lock = Free
    /\ calls = NoCalls
    /\ parser = NoCustom
    /\ checked = NoCheck
    /\ hook_manager = NoManager
    /\ executor = NoExecutor
    /\ loader = NoLoader

ListRows == 1

NextList ==
    \/ SaveMessage(ListRows)
    \/ LoadSession
    \/ UpdateStatus
    \/ SoftDelete
    \/ DeleteSession
    \/ Tick

SpecList == InitList /\ [][NextList]_vars

(***************************************************************************)
(* SpecCorrupt: a session with messages, and a write to a log that is cut  *)
(* short, by a full disk or by the end of the process, after which a new   *)
(* manager may go on.                                                      *)
(***************************************************************************)
CorruptSeedLen == 2

CorruptRows == 3

InitCorrupt ==
    /\ \E n \in 0..CorruptSeedLen : \E ms \in [1..n -> Msgs] :
        LET seed == Seed(1, EmptyStore, ms)
        IN /\ sessions = seed.sessions
           /\ messages = seed.messages
           /\ sqlite_sequence = seed.sqlite_sequence
           /\ logs = seed.logs
           /\ current_session_id = seed.current_session_id
           /\ mem_message_count = seed.mem_message_count
           /\ open_handles = seed.open_handles
    /\ clock = 0
    /\ faults = 0
    /\ db_lock = Free
    /\ calls = NoCalls
    /\ parser = NoCustom
    /\ checked = NoCheck
    /\ hook_manager = NoManager
    /\ executor = NoExecutor
    /\ loader = NoLoader

NextCorrupt ==
    \/ TornSave
    \/ NewManager
    \/ SaveMessage(CorruptRows)
    \/ LoadSession
    \/ BranchSession(CorruptRows)

SpecCorrupt == InitCorrupt /\ [][NextCorrupt]_vars

(***************************************************************************)
(* SpecConcurrent: two save_message calls on one session at the same time, *)
(* from two threads of the caller.  Each call appends its line to the log  *)
(* and then runs its `with self._get_db()` block; SQLite lets one writer   *)
(* at a time into that block, and nothing holds the two parts together.    *)
(* Where a call stands is read from the store: its message is in the log   *)
(* once the first part ran and in the index once the second did.           *)
(***************************************************************************)
WriterMsg(w) ==
    [role |-> "user", content |-> IF w = 1 THEN <<"a">> ELSE <<"b">>,
     tool_calls |-> NULL, tool_results |-> NULL, token_count |-> w]

\* The session both calls write to.
Shared == 1

\* The positions of the message of w in the log, and in the index.
InLog(w) == {i \in 1..Len(logs[Shared]) :
                logs[Shared][i].content = WriterMsg(w).content}

InIndex(w) == {i \in 1..Len(messages) :
                  /\ messages[i].session_id = Shared
                  /\ messages[i].content = WriterMsg(w).content}

writer_pc(w) ==
    IF InLog(w) = {} THEN "start"
    ELSE IF InIndex(w) = {} THEN "logged"
    ELSE "done"

ConcurrentSeedLen == 2

InitConcurrent ==
    /\ \E n \in 0..ConcurrentSeedLen : \E ms \in [1..n -> Msgs] :
        LET seed == Seed(Shared, EmptyStore, ms)
        IN /\ sessions = seed.sessions
           /\ messages = seed.messages
           /\ sqlite_sequence = seed.sqlite_sequence
           /\ logs = seed.logs
           /\ current_session_id = seed.current_session_id
           /\ mem_message_count = seed.mem_message_count
           /\ open_handles = seed.open_handles
    /\ clock = 0
    /\ faults = 0
    /\ db_lock = Free
    /\ calls = NoCalls
    /\ parser = NoCustom
    /\ checked = NoCheck
    /\ hook_manager = NoManager
    /\ executor = NoExecutor
    /\ loader = NoLoader

\* Lines 203-219 of the call of w: `now`, message_data and the append.
SaveLog(w) ==
    /\ writer_pc(w) = "start"
    /\ Ends(Return(append_log(Store, WriterMsg(w), Shared, clock), 0))
    /\ UNCHANGED faults

\* Lines 222-248 of the call of w, with the `now` it took before its append.
SaveIndex(w) ==
    /\ writer_pc(w) = "logged"
    /\ Ends(index_message(Store, WriterMsg(w), Shared,
                          logs[Shared][Min(InLog(w))].timestamp, "none"))
    /\ UNCHANGED faults

NextConcurrent ==
    \/ \E w \in Writers : SaveLog(w)
    \/ \E w \in Writers : SaveIndex(w)
    \/ Tick

SpecConcurrent == InitConcurrent /\ [][NextConcurrent]_vars

(***************************************************************************)
(* SpecHandles: calls whose connection is opened and whose PRAGMA then     *)
(* raises, among calls that go through.  A connection that was not closed  *)
(* stays open until the garbage collector finds it, at a time of its own.  *)
(***************************************************************************)
HandleRows == 3

\* A method that begins with `with self._get_db()` (load_session,
\* list_sessions, update_title, update_status, create_session, ...), called
\* when the PRAGMA of _get_db raises.
ConnectFails ==
    /\ faults < MaxFaults
    /\ faults' = faults + 1
    /\ Ends(pragma_raises(Store))

\* The garbage collector closes a connection nothing refers to any more.
Collect ==
    /\ open_handles > 0
    /\ open_handles' = open_handles - 1
    /\ UNCHANGED <<sessions, messages, sqlite_sequence, logs, current_session_id,
                   mem_message_count, db_lock, calls, clock, parser, checked, faults,
                   hook_manager, executor, loader>>

NextHandles ==
    \/ ConnectFails
    \/ Collect
    \/ SaveMessage(HandleRows)
    \/ LoadSession
    \/ UpdateStatus

SpecHandles == InitCorrupt /\ [][NextHandles]_vars

(***************************************************************************)
(* SpecBusy: save_message calls from two threads while another process     *)
(* may hold the write lock of sessions.db.  A call appends its line, then  *)
(* its INSERT asks for the write lock: SQLite grants it when it is free    *)
(* and otherwise makes the call wait, for at most the `timeout` given to   *)
(* sqlite3.connect, and then raises "database is locked".  The block holds *)
(* the lock until its commit.  The call that makes the in-memory counter   *)
(* reach TitleAt then runs the UPDATE of update_title in a transaction of  *)
(* its own.  The threads keep running (weak fairness on each call); the    *)
(* other process may keep the lock for as long as it likes.                *)
(***************************************************************************)
\* timeout=30: the units of time a statement waits for the lock.
LockWait == 2

busy_timeout_never(waited) == FALSE

\* The busy handler of SQLite gives up once the wait reached the timeout.
busy_timeout(waited) == waited >= LockWait

Moves(w, pc, waited, err) ==
    calls' = [calls EXCEPT ![w] = [pc |-> pc, waited |-> waited, err |-> err]]

\* The `now` the call of w took before its append.
NowOf(w) == logs[Shared][Min(InLog(w))].timestamp

\* Lines 203-219 of the call of w: `now`, message_data and the append.
CallLog(w) ==
    /\ calls[w].pc = "start"
    /\ Leaves(Return(append_log(Store, WriterMsg(w), Shared, clock), 0))
    /\ Moves(w, "index", 0, "")
    /\ UNCHANGED <<clock, parser, checked, db_lock, faults, hook_manager, executor, loader>>

\* The INSERT of line 223 finds the lock free and takes it.
BeginWrite(w) ==
    /\ calls[w].pc = "index"
    /\ db_lock = Free
    /\ db_lock' = w
    /\ Moves(w, "commit", 0, "")
    /\ UNCHANGED <<sessions, messages, sqlite_sequence, logs, current_session_id,
                   mem_message_count, open_handles, clock, parser, checked, faults,
                   hook_manager, executor, loader>>

\* The block of lines 222-240 ends: commit, which gives the lock back, then
\* the counter; the call returns unless it has the title to derive.
Commit(w) ==
    /\ calls[w].pc = "commit"
    /\ db_lock = w
    /\ LET r == index_message(Store, WriterMsg(w), Shared, NowOf(w), "title")
       IN /\ Leaves(r)
          /\ Moves(w, IF r.ok THEN "returned" ELSE "title", 0, "")
    /\ db_lock' = Free
    /\ UNCHANGED <<clock, parser, checked, faults, hook_manager, executor, loader>>

\* _auto_generate_title of line 246 finds the lock free: its UPDATE and commit.
Title(w) ==
    /\ calls[w].pc = "title"
    /\ db_lock = Free
    /\ Leaves(auto_generate_title(Store, Shared, NowOf(w), FALSE))
    /\ Moves(w, "returned", 0, "")
    /\ UNCHANGED <<clock, parser, checked, db_lock, faults, hook_manager, executor, loader>>

\* The statement finds the lock held and the busy handler sleeps.
Wait(w) ==
    /\ calls[w].pc \in {"index", "title"}
    /\ db_lock # Free
    /\ ~busy_timeout(calls[w].waited)
    /\ Moves(w, calls[w].pc, Min2(calls[w].waited + 1, LockWait + 1), "")
    /\ UNCHANGED <<sessions, messages, sqlite_sequence, logs, current_session_id,
                   mem_message_count, open_handles, db_lock, clock, parser, checked, faults,
                   hook_manager, executor, loader>>

\* The busy handler gives up: the statement raises, _get_db closes the
\* connection and the exception leaves save_message.
GiveUp(w) ==
    /\ calls[w].pc \in {"index", "title"}
    /\ db_lock # Free
    /\ busy_timeout(calls[w].waited)
    /\ LET r == IF calls[w].pc = "index"
                THEN index_message(Store, WriterMsg(w), Shared, NowOf(w), "index")
                ELSE auto_generate_title(Store, Shared, NowOf(w), TRUE)
       IN /\ Leaves(r)
          /\ Moves(w, "raised", calls[w].waited, r.err)
    /\ faults' = faults + 1
    /\ UNCHANGED <<clock, parser, checked, db_lock, hook_manager, executor, loader>>

\* A step of the call of w.
Call(w) ==
    \/ CallLog(w)
    \/ BeginWrite(w)
    \/ Commit(w)
    \/ Title(w)
    \/ Wait(w)
    \/ GiveUp(w)

\* A connection of another process takes the write lock, and gives it back.
OtherLocks ==
    /\ db_lock = Free
    /\ db_lock' = Other
    /\ UNCHANGED <<sessions, messages, sqlite_sequence, logs, current_session_id,
                   mem_message_count, open_handles, calls, clock, parser, checked, faults,
                   hook_manager, executor, loader>>

OtherUnlocks ==
    /\ db_lock = Other
    /\ db_lock' = Free
    /\ UNCHANGED <<sessions, messages, sqlite_sequence, logs, current_session_id,
                   mem_message_count, open_handles, calls, clock, parser, checked, faults,
                   hook_manager, executor, loader>>

NextBusy ==
    \/ \E w \in Writers : Call(w)
    \/ OtherLocks
    \/ OtherUnlocks

SpecBusy ==
    /\ InitConcurrent
    /\ [][NextBusy]_vars
    /\ \A w \in Writers : WF_vars(Call(w))

(***************************************************************************)
(* SpecSearch: messages of one, two and repeated tokens are saved to two   *)
(* ids, one of which may be a directory a hard delete left behind, so that *)
(* the hits of a query differ in rank and some index rows have no session  *)
(* row.                                                                    *)
(***************************************************************************)
SearchMsgs == {
    [role |-> "user", content |-> <<"o", "k">>,
     tool_calls |-> NULL, tool_results |-> NULL, token_count |-> 1],
    [role |-> "user", content |-> <<"o", "k", " ", "o", "k">>,
     tool_calls |-> NULL, tool_results |-> NULL, token_count |-> 2],
    [role |-> "assistant", content |-> <<"o", "k", " ", "n", "o">>,
     tool_calls |-> NULL, tool_results |-> NULL, token_count |-> 2] }

SearchQueries == UNION {fts_tokens(m.content) : m \in SearchMsgs}

SearchRows == 3

InitSearch ==
    /\ \E left \in BOOLEAN :
        LET seed == Seed(1, IF left THEN Leftover(2, EmptyStore, <<>>) ELSE EmptyStore,
                         <<>>)
        IN /\ sessions = seed.sessions
           /\ messages = seed.messages
           /\ sqlite_sequence = seed.sqlite_sequence
           /\ logs = seed.logs
           /\ current_session_id = seed.current_session_id
           /\ mem_message_count = seed.mem_message_count
           /\ open_handles = seed.open_handles
    /\ clock = 0
    /\ faults = 0
    /\ db_lock = Free
    /\ calls = NoCalls
    /\ parser = NoCustom
    /\ checked = NoCheck
    /\ hook_manager = NoManager
    /\ executor = NoExecutor
    /\ loader = NoLoader

SaveFound ==
    \E m \in SearchMsgs, session_id \in SessionArgs :
        /\ sqlite_sequence < SearchRows
        /\ Ends(save_message(Store, m, session_id, clock, "none"))
        /\ UNCHANGED faults

NextSearch ==
    \/ SaveFound
    \/ LoadSession
    \/ DeleteSession

SpecSearch == InitSearch /\ [][NextSearch]_vars

(***************************************************************************)
(* hooks.py: regular expressions.  A pattern is the sequence of its items: *)
(* one character of a set, one or more (`+`) or any number (`*`) of        *)
(* characters of a set, any number of repetitions of a group `( ... )*`,   *)
(* `^`, `$` and `\b`.  The patterns are compiled with re.IGNORECASE.       *)
(***************************************************************************)
\* The characters str.split() and \s take as whitespace, among those used.
White == {" ", "\t", "\n"}

\* The case fold of re.IGNORECASE, for the letters written in capitals.
fold(c) ==
    CASE c = "S" -> "s" [] c = "U" -> "u" [] c = "D" -> "d" [] c = "O" -> "o"
      [] c = "I" -> "i" [] OTHER -> c

One(cs) == [k |-> "one", cs |-> {fold(c) : c \in cs}]
Plus(cs) == [k |-> "plus", cs |-> {fold(c) : c \in cs}]
Group(g) == [k |-> "group", g |-> g]
Bol == [k |-> "bol"]
Eol == [k |-> "eol"]
WordB == [k |-> "wordb"]

\* The pattern of a text with no special character: re.escape(text).
Lit(text) == [i \in 1..Len(text) |-> One({text[i]})]

\* \w, among the characters used.
IsWord(s, i) == i >= 1 /\ i <= Len(s) /\ s[i] \notin White \cup {"/", "-", "."}

\* ends(p, j, s, i): where a match of the items j.. of p can end that starts
\* before character i of s.
RECURSIVE ends(_, _, _, _)
RECURSIVE repeats(_, _, _)
ends(p, j, s, i) ==
    IF j > Len(p) THEN {i}
    ELSE CASE p[j].k = "one" ->
                IF i <= Len(s) /\ fold(s[i]) \in p[j].cs
                THEN ends(p, j + 1, s, i + 1) ELSE {}
           [] p[j].k = "plus" ->
                UNION {ends(p, j + 1, s, e) :
                         e \in {e \in (i + 1)..(Len(s) + 1) :
                                  \A x \in i..(e - 1) : fold(s[x]) \in p[j].cs}}
           [] p[j].k = "group" ->
                UNION {ends(p, j + 1, s, e) : e \in repeats(p[j].g, s, {i})}
           [] p[j].k = "bol" -> IF i = 1 THEN ends(p, j + 1, s, i) ELSE {}
           [] p[j].k = "eol" -> IF i = Len(s) + 1 THEN ends(p, j + 1, s, i) ELSE {}
           [] p[j].k = "wordb" ->
                IF IsWord(s, i - 1) # IsWord(s, i) THEN ends(p, j + 1, s, i) ELSE {}

\* The positions any number of repetitions of the group g can reach from at.
repeats(g, s, at) ==
    LET more == at \cup UNION {ends(g, 1, s, i) : i \in at}
    IN IF more = at THEN at ELSE repeats(g, s, more)

\* pattern.search(s)
search(p, s) == \E i \in 1..(Len(s) + 1) : ends(p, 1, s, i) # {}

(***************************************************************************)
(* BashSafetyParser                                                        *)
(***************************************************************************)
\* rm\s+(-[rfvI]+\s+)*
RmFlags == Lit(<<"r", "m">>) \o <<Plus(White),
                                  Group(<<One({"-"}), Plus({"r", "f", "v", "I"}),
                                          Plus(White)>>)>>

\* Of BLOCKED_PATTERNS: rm\s+(-[rfvI]+\s+)*/ , \bsudo\s+ and \bhalt\b.
BLOCKED_PATTERNS == <<
    [pattern |-> RmFlags \o Lit(<<"/">>), reason |-> "Delete from root path"],
    [pattern |-> <<WordB>> \o Lit(<<"s", "u", "d", "o">>) \o <<Plus(White)>>,
     reason |-> "Elevated privileges (sudo)"],
    [pattern |-> <<WordB>> \o Lit(<<"h", "a", "l", "t">>) \o <<WordB>>,
     reason |-> "System halt"] >>

\* Of ALLOWED_OVERRIDES: rm\s+(-[rfvI]+\s+)*/tmp/
ALLOWED_OVERRIDES == << RmFlags \o Lit(<<"/", "t", "m", "p", "/">>) >>

\* The custom patterns a parser is made with.
\* ^sudo halt$ , and sudo\thalt with a tab.
CustomAllowed == {
    <<>>,
    << <<Bol>> \o Lit(<<"s", "u", "d", "o", " ", "h", "a", "l", "t">>) \o <<Eol>> >>,
    << Lit(<<"s", "u", "d", "o", "\t", "h", "a", "l", "t">>) >> }

\* /tmp/
CustomBlocked == { <<>>, << Lit(<<"/", "t", "m", "p", "/">>) >> }

\* __init__
new_parser(custom_blocked, custom_allowed) ==
    [custom_blocked |-> custom_blocked, custom_allowed |-> custom_allowed]

compiled_allowed(p) == ALLOWED_OVERRIDES \o p.custom_allowed

\* command.strip(), as a truth value: some character is no whitespace.
strips_to_text(command) == \E i \in 1..Len(command) : command[i] \notin White

\* ' '.join(command.split())
RECURSIVE normalize(_)
normalize(command) ==
    IF command = <<>> THEN <<>>
    ELSE IF Head(command) \in White
    THEN LET rest == normalize(Tail(command))
         IN IF rest = <<>> \/ Len(command) = 1 THEN rest
            ELSE IF Head(Tail(command)) \in White THEN rest
            ELSE <<" ">> \o rest
    ELSE <<Head(command)>> \o normalize(Tail(command))

normalized(command) ==
    LET n == normalize(command)
    IN IF n # <<>> /\ n[1] = " " THEN Tail(n) ELSE n

any_allowed(p, text) ==
    \E k \in 1..Len(compiled_allowed(p)) : search(compiled_allowed(p)[k], text)

blocked_by(text) ==
    {k \in 1..Len(BLOCKED_PATTERNS) : search(BLOCKED_PATTERNS[k].pattern, text)}

custom_blocked_by(p, text) ==
    {k \in 1..Len(p.custom_blocked) : search(p.custom_blocked[k], text)}

Safe == [safe |-> TRUE, reason |-> <<>>]

\* The blocked patterns and then the custom ones, the first match deciding.
check_blocked(p, text) ==
    IF blocked_by(text) # {}
    THEN [safe |-> FALSE,
          reason |-> <<"Dangerous command blocked: ",
                       BLOCKED_PATTERNS[Min(blocked_by(text))].reason>>]
    ELSE IF custom_blocked_by(p, text) # {}
    THEN [safe |-> FALSE, reason |-> <<"Command matches custom blocked pattern">>]
    ELSE Safe

\* check_command with the blocked patterns checked before the allowed ones.
check_command_blocked_first(p, command) ==
    IF ~strips_to_text(command) THEN Safe
    ELSE IF ~check_blocked(p, normalized(command)).safe
    THEN check_blocked(p, normalized(command))
    ELSE Safe

check_command(p, command) ==
    IF ~strips_to_text(command) THEN Safe
    ELSE IF any_allowed(p, normalized(command)) THEN Safe
    ELSE check_blocked(p, normalized(command))

(***************************************************************************)
(* SpecHooks: parsers made with and without custom patterns check commands *)
(* put together from a few words and whitespace.                           *)
(***************************************************************************)
Pieces == { <<"r", "m">>, <<"-", "r", "f">>, <<"/", "t", "m", "p", "/">>, <<"/">>,
            <<"s", "u", "d", "o">>, <<"S", "U", "D", "O">>, <<"h", "a", "l", "t">>,
            <<" ">>, <<"\t">> }

MaxPieces == 4

RECURSIVE Joined(_)
Joined(n) ==
    IF n = 0 THEN {<<>>}
    ELSE Joined(n - 1) \cup {c \o p : c \in Joined(n - 1), p \in Pieces}

Commands == Joined(MaxPieces)

InitHooks ==
    /\ sessions = <<>>
    /\ messages = <<>>
    /\ sqlite_sequence = 0
    /\ logs = <<>>
    /\ current_session_id = NoId
    /\ mem_message_count = 0
    /\ open_handles = 0
    /\ clock = 0
    /\ faults = 0
    /\ db_lock = Free
    /\ calls = NoCalls
    /\ \E cb \in CustomBlocked, ca \in CustomAllowed : parser = new_parser(cb, ca)
    /\ \E command \in Commands : checked = [NoCheck EXCEPT !.command = command]
    /\ hook_manager = NoManager
    /\ executor = NoExecutor
    /\ loader = NoLoader

\* Another parser is made, for the same command.
NewParser ==
    /\ \E cb \in CustomBlocked, ca \in CustomAllowed : parser' = new_parser(cb, ca)
    /\ checked' = [NoCheck EXCEPT !.command = checked.command]
    /\ UNCHANGED <<sessions, messages, sqlite_sequence, logs, current_session_id,
                   mem_message_count, open_handles, db_lock, calls, clock, faults,
                   hook_manager, executor, loader>>

CheckCommand ==
    /\ ~checked.made
    /\ checked' = [made |-> TRUE, command |-> checked.command,
                   safe |-> check_command(parser, checked.command).safe,
                   reason |-> check_command(parser, checked.command).reason]
    /\ UNCHANGED <<sessions, messages, sqlite_sequence, logs, current_session_id,
                   mem_message_count, open_handles, db_lock, calls, parser,
                   clock, faults,
                   hook_manager, executor, loader>>

NextHooks ==
    \/ NewParser
    \/ CheckCommand

SpecHooks == InitHooks /\ [][NextHooks]_vars

(***************************************************************************)
(* SpecStatus: update_status called with any str, among create_session,    *)
(* save_message and delete_session.                                        *)
(***************************************************************************)
\* The values of the argument `status: str`: the three the docstring names
\* and one it does not.
StatusArgs == Statuses \cup {"paused"}

UpdateStatusTo ==
    \E session_id \in Ids, status \in StatusArgs :
        /\ Ends(update_status(Store, session_id, status, clock, FALSE))
        /\ UNCHANGED faults

StatusRows == 1

NextStatus ==
    \/ UpdateStatusTo
    \/ SaveMessage(StatusRows)
    \/ SoftDelete
    \/ DeleteSession

SpecStatus == InitList /\ [][NextStatus]_vars

(***************************************************************************)
(* SpecPreHook: a HookManager (hooks.py) with its built-in bash safety     *)
(* hook, on which further hooks are registered and run_pre_hook is called. *)
(***************************************************************************)
Events == {"pre_bash", "pre_edit"}

\* HookResult(allowed, message)
HookResult(allowed, message) == [allowed |-> allowed, message |-> message]

\* self._bash_safety_hook, as registered by _register_builtin_hooks
bash_safety_hook == [kind |-> "bash_safety", allowed |-> TRUE, message |-> <<>>]

\* The callables a caller registers: they return a HookResult or raise.
Callables ==
    { [kind |-> "returns", allowed |-> TRUE, message |-> <<>>],
      [kind |-> "returns", allowed |-> FALSE, message |-> <<"a">>],
      [kind |-> "returns", allowed |-> FALSE, message |-> <<"b">>],
      [kind |-> "raises", allowed |-> TRUE, message |-> <<>>] }

\* The context's command: "ls", "rm -rf /" and "rm -rf /tmp/"
ContextCommands ==
    { <<"l", "s">>,
      <<"r", "m", " ", "-", "r", "f", " ", "/">>,
      <<"r", "m", " ", "-", "r", "f", " ", "/", "t", "m", "p", "/">> }

MaxHooks == 3

\* hook(context): what the call does
call_hook(p, hook, command) ==
    IF hook.kind = "bash_safety"
    THEN [raised |-> FALSE,
          result |-> HookResult(check_command(p, command).safe,
                                check_command(p, command).reason)]
    ELSE [raised |-> hook.kind = "raises",
          result |-> HookResult(hook.allowed, hook.message)]

\* self._hooks.get(event, [])
registered(hm, event) ==
    IF event \in DOMAIN hm.hooks THEN hm.hooks[event] ELSE <<>>

\* HookManager.register_hook
register_hook(hm, event, hook) ==
    [hm EXCEPT !.hooks =
        IF event \in DOMAIN hm.hooks
        THEN [hm.hooks EXCEPT ![event] = Append(@, hook)]
        ELSE [e \in DOMAIN hm.hooks \cup {event} |->
                 IF e = event THEN <<hook>> ELSE hm.hooks[e]]]

\* The loop of run_pre_hook that goes on after a hook has denied and
\* returns the last denial.
RECURSIVE run_hooks_to_end(_, _, _, _)
run_hooks_to_end(p, hooks, command, invoked) ==
    LET k == Len(invoked) + 1
    IN IF k > Len(hooks)
       THEN [allowed |-> TRUE, message |-> <<>>, invoked |-> invoked]
       ELSE LET c == call_hook(p, hooks[k], command)
                rest == run_hooks_to_end(p, hooks, command, Append(invoked, k))
            IN IF ~c.raised /\ ~c.result.allowed /\ rest.allowed
               THEN [allowed |-> FALSE, message |-> c.result.message,
                     invoked |-> rest.invoked]
               ELSE rest

\* The loop of run_pre_hook over the hooks of the event, from the hook
\* after those invoked: a hook that raises is passed over.
RECURSIVE run_hooks(_, _, _, _)
run_hooks(p, hooks, command, invoked) ==
    LET k == Len(invoked) + 1
    IN IF k > Len(hooks)
       THEN [allowed |-> TRUE, message |-> <<>>, invoked |-> invoked]
       ELSE LET c == call_hook(p, hooks[k], command)
            IN IF ~c.raised /\ ~c.result.allowed
               THEN [allowed |-> FALSE, message |-> c.result.message,
                     invoked |-> Append(invoked, k)]
               ELSE run_hooks(p, hooks, command, Append(invoked, k))

\* HookManager.run_pre_hook
run_pre_hook(hm, p, event, command) ==
    IF hm.disabled
    THEN [allowed |-> TRUE, message |-> <<>>, invoked |-> <<>>]
    ELSE run_hooks(p, registered(hm, event), command, <<>>)

\* HookManager(project_dir): the configuration read from the config files
\* may disable the hooks; the built-in hook is registered.
InitPreHook ==
    /\ sessions = <<>>
    /\ messages = <<>>
    /\ sqlite_sequence = 0
    /\ logs = <<>>
    /\ current_session_id = NoId
    /\ mem_message_count = 0
    /\ open_handles = 0
    /\ clock = 0
    /\ faults = 0
    /\ db_lock = Free
    /\ calls = NoCalls
    /\ parser = new_parser(<<>>, <<>>)
    /\ checked = NoCheck
    /\ \E disabled \in BOOLEAN, command \in ContextCommands :
          hook_manager = register_hook(
              [NoManager EXCEPT !.disabled = disabled, !.command = command],
              "pre_bash", bash_safety_hook)
    /\ executor = NoExecutor
    /\ loader = NoLoader

RegisterHook ==
    \E event \in Events, hook \in Callables :
        /\ Len(registered(hook_manager, event)) < MaxHooks
        /\ hook_manager' = [register_hook(hook_manager, event, hook) EXCEPT
                               !.made = FALSE, !.event = "", !.allowed = TRUE,
                               !.message = <<>>, !.invoked = <<>>]
        /\ UNCHANGED <<sessions, messages, sqlite_sequence, logs, current_session_id,
                       mem_message_count, open_handles, db_lock, calls, parser,
                       checked, executor, loader, clock, faults>>

RunPreHook ==
    \E event \in Events :
        LET r == run_pre_hook(hook_manager, parser, event, hook_manager.command)
        IN /\ ~hook_manager.made
           /\ hook_manager' = [hook_manager EXCEPT
                                  !.made = TRUE, !.event = event,
                                  !.allowed = r.allowed, !.message = r.message,
                                  !.invoked = r.invoked]
           /\ UNCHANGED <<sessions, messages, sqlite_sequence, logs,
                          current_session_id, mem_message_count, open_handles,
                          db_lock, calls, parser, checked, executor, loader,
                          clock, faults>>

NextPreHook ==
    \/ RegisterHook
    \/ RunPreHook

SpecPreHook == InitPreHook /\ [][NextPreHook]_vars

(***************************************************************************)
(* SpecExecutor: SubagentExecutor.execute (subagent.py), one step of its   *)
(* loops at a time. The model's responses and what a tool does are the     *)
(* environment's choice.                                                   *)
(***************************************************************************)
Tools == {"read_file", "bash"}

\* agent.allowed_tools of the agents executed
AllowedTools == { {}, {"read_file"}, {"read_file", "bash"} }

\* func.get("arguments", {}): a mapping, or what the model sent instead
Arguments == {"mapping", "string"}

ToolCalls == [name : Tools, arguments : Arguments]

MaxCalls == 2

MaxRounds == 2

\* message.get("tool_calls", []) of a response
ToolCallLists ==
    UNION {[1..n -> ToolCalls] : n \in 0..MaxCalls}

\* response.get("message", {}) of a response of client.chat
Responses ==
    [role : {"assistant"}, name : {""}, content : {<<>>, <<"c">>},
     tool_calls : ToolCallLists]

Message(role, name, content) ==
    [role |-> role, name |-> name, content |-> content, tool_calls |-> <<>>]

\* SubagentExecutor(agent, client, tool_manager, working_dir)
new_executor(allowed_tools, system_prompt) ==
    [pc |-> "made", allowed_tools |-> allowed_tools, max_rounds |-> 0,
     rounds |-> 0, final_content |-> <<>>, pending |-> <<>>, chats |-> 0,
     executed |-> <<>>, returned |-> <<>>,
     messages |-> IF system_prompt # <<>>
                  THEN <<Message("system", "", system_prompt)>>
                  ELSE <<>>]

\* The check on a tool call's name that lets every tool through.
not_allowed_never(allowed_tools, name) ==
    allowed_tools # {} /\ name \notin Tools

\* self.agent.allowed_tools and name not in self.agent.allowed_tools
not_allowed(allowed_tools, name) ==
    allowed_tools # {} /\ name \notin allowed_tools

\* str({"error": f"Tool '{name}' not allowed for this agent"})
not_allowed_error(name) == <<"error", "Tool '", name, "' not allowed for this agent">>

\* return f"Subagent error: {str(e)}"
subagent_error(ex) ==
    [ex EXCEPT !.pc = "done", !.returned = <<"Subagent error: ">>]

\* return final_content or "Subagent completed without response"
returns(ex) ==
    [ex EXCEPT !.pc = "done",
               !.returned = IF ex.final_content # <<>> THEN ex.final_content
                            ELSE <<"Subagent completed without response">>]

\* execute, up to the loop: the task is added
execute(ex, task, max_rounds) ==
    [ex EXCEPT !.pc = "loop", !.max_rounds = max_rounds, !.rounds = 0,
               !.final_content = <<>>, !.chats = 0, !.returned = <<>>,
               !.messages = Append(@, Message("user", "", task))]

\* One pass of the while loop up to the for loop: client.chat raises or
\* returns the response.
chat(ex, raises, message) ==
    LET called == [ex EXCEPT !.chats = @ + 1]
        added == [called EXCEPT
                     !.messages = Append(@, message),
                     !.final_content = IF message.content # <<>>
                                       THEN message.content ELSE @]
    IN IF raises THEN subagent_error(called)
       ELSE IF message.tool_calls = <<>> THEN returns(added)
       ELSE [added EXCEPT !.pc = "tools", !.pending = message.tool_calls]

\* One pass of the for loop, for the first tool call not yet handled;
\* after the last one, rounds += 1.
run_tool(ex, raises) ==
    LET tool_call == Head(ex.pending)
        name == tool_call.name
        next(e) == IF Tail(ex.pending) = <<>>
                   THEN [e EXCEPT !.pending = <<>>, !.rounds = @ + 1, !.pc = "loop"]
                   ELSE [e EXCEPT !.pending = Tail(ex.pending)]
    IN IF not_allowed(ex.allowed_tools, name)
       THEN next([ex EXCEPT !.messages =
                     Append(@, Message("tool", name, not_allowed_error(name)))])
       ELSE IF tool_call.arguments # "mapping"
       THEN subagent_error(ex)
       ELSE IF raises
       THEN subagent_error([ex EXCEPT !.executed = Append(@, name)])
       ELSE next([ex EXCEPT !.executed = Append(@, name),
                            !.messages = Append(@, Message("tool", name, <<"result">>))])

InitExecutor ==
    /\ sessions = <<>>
    /\ messages = <<>>
    /\ sqlite_sequence = 0
    /\ logs = <<>>
    /\ current_session_id = NoId
    /\ mem_message_count = 0
    /\ open_handles = 0
    /\ clock = 0
    /\ faults = 0
    /\ db_lock = Free
    /\ calls = NoCalls
    /\ parser = NoCustom
    /\ checked = NoCheck
    /\ hook_manager = NoManager
    /\ \E allowed_tools \in AllowedTools, system_prompt \in {<<>>, <<"s">>} :
          executor = new_executor(allowed_tools, system_prompt)
    /\ loader = NoLoader

Sets(ex) ==
    /\ executor' = ex
    /\ UNCHANGED <<sessions, messages, sqlite_sequence, logs, current_session_id,
                   mem_message_count, open_handles, db_lock, calls, parser,
                   checked, hook_manager, loader, clock, faults>>

Execute ==
    /\ executor.pc = "made"
    /\ \E max_rounds \in 0..MaxRounds : Sets(execute(executor, <<"t">>, max_rounds))

Chat ==
    /\ executor.pc = "loop"
    /\ executor.rounds < executor.max_rounds
    /\ \E raises \in BOOLEAN, message \in Responses :
          Sets(chat(executor, raises, message))

RunTool ==
    /\ executor.pc = "tools"
    /\ \E raises \in BOOLEAN : Sets(run_tool(executor, raises))

LeaveLoop ==
    /\ executor.pc = "loop"
    /\ ~(executor.rounds < executor.max_rounds)
    /\ Sets(returns(executor))

NextExecutor ==
    \/ Execute
    \/ Chat
    \/ RunTool
    \/ LeaveLoop

SpecExecutor == InitExecutor /\ [][NextExecutor]_vars

\* The thread that called execute goes on running until execute returns.
SpecExecutorRuns ==
    /\ InitExecutor
    /\ [][NextExecutor]_vars
    /\ WF_vars(Chat \/ RunTool \/ LeaveLoop)

(***************************************************************************)
(* SpecReload: the managers of commands.py, skills.py and subagent.py load *)
(* their definitions from a global and a project directory.                *)
(***************************************************************************)
Kinds == {"commands", "skills", "agents"}

\* File names without their suffix, and names, are sequences of pieces.
Stems == {<<"a">>, <<"code-reviewer">>}

NoName == <<>>

\* *.md files: without frontmatter, with frontmatter that is a mapping
\* (naming the command or not), that is not valid YAML, or that is a list.
CommandFiles ==
    {f \in [stem : Stems, ext : {"md"},
            yaml : {"none", "dict", "invalid", "list"},
            name : {NoName, <<"a">>, <<"/", "a">>}, md : {TRUE}] :
        f.name # NoName => f.yaml = "dict"}

\* *.yaml and *.yml files: a mapping (naming the agent or not), not valid
\* YAML, or empty.
AgentFiles ==
    {f \in [stem : Stems, ext : {"yaml", "yml"},
            yaml : {"dict", "invalid", "empty"},
            name : {NoName, <<"code-reviewer">>}, md : {TRUE}] :
        f.name # NoName => f.yaml = "dict"}

\* Skill folders: skill.yaml absent, a mapping (naming the skill or not) or
\* not valid YAML; SKILL.md with content or not.
SkillFolders ==
    {f \in [stem : Stems, ext : {""},
            yaml : {"absent", "dict", "invalid"},
            name : {NoName, <<"a">>}, md : BOOLEAN] :
        f.name # NoName => f.yaml = "dict"}

FilesOf(kind) ==
    CASE kind = "commands" -> CommandFiles
      [] kind = "agents" -> AgentFiles
      [] OTHER -> SkillFolders

MaxFiles == 2

\* The listings of a directory of at most MaxFiles entries, no two with the
\* same file name, in the order the directory is iterated.
Directories(kind) ==
    {d \in UNION {[1..n -> FilesOf(kind)] : n \in 0..MaxFiles} :
        \A i, j \in 1..Len(d) :
            i # j => d[i].stem # d[j].stem \/ d[i].ext # d[j].ext}

\* What a parse gives: a definition under a name, nothing (None), or an
\* exception.
Parsed(name, file, source, content) ==
    [ok |-> TRUE, name |-> name,
     definition |-> [source |-> source, stem |-> file.stem, ext |-> file.ext,
                     content |-> content]]

NotParsed == [ok |-> FALSE, name |-> NoName,
              definition |-> [source |-> "", stem |-> NoName, ext |-> "",
                              content |-> ""]]

\* CommandManager._parse_command_file: frontmatter that is not valid YAML
\* leaves the metadata empty and the whole file as the body; metadata that is
\* not a mapping raises.
parse_command_file(file, source) ==
    LET name == IF file.yaml = "dict" /\ file.name # NoName
                THEN file.name ELSE file.stem
        slashed == IF Head(name) = "/" THEN name ELSE <<"/">> \o name
    IN IF file.yaml = "list" THEN NotParsed
       ELSE Parsed(slashed, file, source,
                   IF file.yaml = "invalid" THEN "file" ELSE "body")

\* SubagentManager._parse_agent_file
parse_agent_file(file, source) ==
    IF file.yaml # "dict" THEN NotParsed
    ELSE Parsed(IF file.name # NoName THEN file.name ELSE file.stem,
                file, source, "body")

\* SkillManager._parse_skill
parse_skill(file, source) ==
    IF file.yaml = "invalid" \/ ~file.md THEN NotParsed
    ELSE Parsed(IF file.yaml = "dict" /\ file.name # NoName
                THEN file.name ELSE file.stem,
                file, source, "body")

parse(kind, file, source) ==
    CASE kind = "commands" -> parse_command_file(file, source)
      [] kind = "agents" -> parse_agent_file(file, source)
      [] OTHER -> parse_skill(file, source)

\* self._commands[command.name] = command
Put(defs, name, definition) ==
    [n \in DOMAIN defs \cup {name} |-> IF n = name THEN definition ELSE defs[n]]

\* _load_commands_from_dir, _load_skills_from_dir, and each loop of
\* _load_agents_from_dir: a file that does not parse is passed over.
RECURSIVE load_from_dir(_, _, _, _)
load_from_dir(kind, defs, listing, source) ==
    IF listing = <<>> THEN defs
    ELSE LET r == parse(kind, Head(listing), source)
         IN load_from_dir(kind,
                          IF r.ok THEN Put(defs, r.name, r.definition) ELSE defs,
                          Tail(listing), source)

\* _load_agents_from_dir: the *.yaml files, then the *.yml files
load_agents_from_dir(defs, listing, source) ==
    LET IsYaml(f) == f.ext = "yaml"
        IsYml(f) == f.ext = "yml"
    IN load_from_dir("agents",
                     load_from_dir("agents", defs, SelectSeq(listing, IsYaml), source),
                     SelectSeq(listing, IsYml), source)

BuiltinAgents == {<<"code-reviewer">>, <<"test-writer">>, <<"documenter">>}

Builtin(name) == [source |-> "builtin", stem |-> name, ext |-> "", content |-> "body"]

\* SubagentManager._add_builtin_agents
add_builtin_agents(defs) ==
    [n \in DOMAIN defs \cup BuiltinAgents |->
        IF n \in DOMAIN defs THEN defs[n] ELSE Builtin(n)]

\* reload_commands, reload_skills, reload_agents
reload(kind, global, project) ==
    IF kind = "agents"
    THEN add_builtin_agents(
             load_agents_from_dir(load_agents_from_dir(<<>>, global, "global"),
                                  project, "project"))
    ELSE load_from_dir(kind, load_from_dir(kind, <<>>, global, "global"),
                       project, "project")

\* A manager is constructed over two directories: it loads at once.
InitReload ==
    /\ sessions = <<>>
    /\ messages = <<>>
    /\ sqlite_sequence = 0
    /\ logs = <<>>
    /\ current_session_id = NoId
    /\ mem_message_count = 0
    /\ open_handles = 0
    /\ clock = 0
    /\ faults = 0
    /\ db_lock = Free
    /\ calls = NoCalls
    /\ parser = NoCustom
    /\ checked = NoCheck
    /\ hook_manager = NoManager
    /\ executor = NoExecutor
    /\ \E kind \in Kinds :
          \E global \in Directories(kind), project \in Directories(kind) :
              loader = [kind |-> kind, global |-> global, project |-> project,
                        loaded |-> reload(kind, global, project),
                        reloaded |-> TRUE]

Loads(l) ==
    /\ loader' = l
    /\ UNCHANGED <<sessions, messages, sqlite_sequence, logs, current_session_id,
                   mem_message_count, open_handles, db_lock, calls, parser,
                   checked, hook_manager, executor, clock, faults>>

\* A file of the project directory is removed; the manager is not told.
RemoveFile ==
    /\ loader.project # <<>>
    /\ Loads([loader EXCEPT !.project = Tail(@), !.reloaded = FALSE])

Reload ==
    Loads([loader EXCEPT
              !.loaded = reload(loader.kind, loader.global, loader.project),
              !.reloaded = TRUE])

NextReload ==
    \/ RemoveFile
    \/ Reload

SpecReload == InitReload /\ [][NextReload]_vars

(***************************************************************************)
(* SpecTitle: the title derivation, on messages whose content takes every  *)
(* shape the derivation tells apart.  The store it starts with holds one   *)
(* new session, or one session whose first TitleScan saves were assistant  *)
(* messages whose index write failed (the lines are in the log, no row     *)
(* and no count stands for them).                                          *)
(***************************************************************************)
Rep(c, n) == [i \in 1..n |-> c]

TitleContents == {
    <<"f", "i", "x", ".">>,                          \* short, one line
    <<>>,                                            \* empty
    <<"h", "i", "?", "\n", "y">>,                    \* two lines
    <<"\n", "x">>,                                   \* empty first line
    <<"?", "!", "\n">>,                              \* first line of punctuation only
    Rep("a", TitleChars),                            \* exactly TitleChars characters
    Rep("a", TitleChars) \o <<"b">>,                 \* one character more
    Rep("a", TitleChars - 2) \o <<".", "!", "x">>,   \* cut after punctuation
    Rep("a", TitleChars) \o <<"\n", "b">> }          \* newline after the cut

TitleMsgs ==
    {[role |-> "user", content |-> c, tool_calls |-> NULL, tool_results |-> NULL,
      token_count |-> 1] : c \in TitleContents}
    \cup {[role |-> "assistant", content |-> <<"o", "k">>, tool_calls |-> NULL,
           tool_results |-> NULL, token_count |-> 1]}

\* n times save_message(m) with the index write raising.
RECURSIVE FailAll(_, _, _)
FailAll(st, m, n) ==
    IF n = 0 THEN st ELSE FailAll(save_message(st, m, NoId, 0, "index").st, m, n - 1)

TitleSeeds ==
    LET new == create_session(EmptyStore, 1, SeedArgs, NoId, NullInt, 0, "none").st
    IN {new,
        FailAll(new, CHOOSE m \in TitleMsgs : m.role = "assistant", TitleScan)}

InitTitle ==
    /\ \E seed \in TitleSeeds :
        /\ sessions = seed.sessions
        /\ messages = seed.messages
        /\ sqlite_sequence = seed.sqlite_sequence
        /\ logs = seed.logs
        /\ current_session_id = seed.current_session_id
        /\ mem_message_count = seed.mem_message_count
        /\ open_handles = seed.open_handles
    /\ clock = 0
    /\ faults = 0
    /\ db_lock = Free
    /\ calls = NoCalls
    /\ parser = NoCustom
    /\ checked = NoCheck
    /\ hook_manager = NoManager
    /\ executor = NoExecutor
    /\ loader = NoLoader

\* save_message(role, content) on the current session, up to the save at which
\* the derivation runs.
SaveTitled ==
    \E m \in TitleMsgs :
        /\ mem_message_count < TitleAt
        /\ Ends(save_message(Store, m, NoId, clock, "none"))
        /\ faults' = faults

NextTitle == SaveTitled

SpecTitle == InitTitle /\ [][NextTitle]_vars

(***************************************************************************)
(* Properties.  A property of a method relates the store a call finds (the *)
(* variables) to the outcome r of the call (the store r.st it leaves, and  *)
(* its return value r.val or its exception r.err).  It is stated either    *)
(* over every reachable state and every call a caller can make in it (a    *)
(* state predicate), or over every step of a behaviour that is the call    *)
(* (Ends(r): the step takes the store to r.st).                            *)
(***************************************************************************)
\* The index rows of one session, in rowid order.
Rows(tbl, sid) == SelectSeq(tbl, LAMBDA r : r.session_id = sid)

Lines(lg, sid) == IF sid \in DOMAIN lg THEN lg[sid] ELSE <<>>

\* The index row and the log line record the same message.
LineOf(row, line) ==
    /\ row.role = line.role
    /\ row.content = line.content
    /\ row.timestamp = line.timestamp
    /\ row.token_count = line.token_count

\* Every value of an Optional session_id argument.
SessionIdArgs == {NoId} \cup Ids

SaveFails == {"none", "index", "title"}

(***************************************************************************)
(* C1                                                                      *)
(***************************************************************************)
\* C1 (as the specification states it): a successful save_message returns the
\* sequence index of the message, that is the number of successful saves made
\* on that session before it (0 for the first save, N-1 for the N-th).  As long
\* as no call has raised halfway, that number is the message_count of the
\* session's row when the call starts.
C1_ReturnsSequenceIndex ==
    [][faults = 0 =>
        \A m \in Msgs, session_id \in SessionIdArgs :
            LET sid == Resolve(session_id)
                r == save_message(Store, m, session_id, clock, "none")
            IN r.ok /\ sid \in DOMAIN sessions /\ Ends(r)
                   => r.val = sessions[sid].message_count]_vars

(***************************************************************************)
(* C2                                                                      *)
(***************************************************************************)
\* C2 (as the specification states it): after every successful save_message on
\* a session, the message_count of the session's row equals the number of
\* messages in the session's log, whatever saves failed before.
C2_CountEqualsLogLength ==
    [][\A m \in Msgs, session_id \in SessionIdArgs :
        LET sid == Resolve(session_id)
            r == save_message(Store, m, session_id, clock, "none")
        IN r.ok /\ sid \in DOMAIN sessions /\ Ends(r)
               => sessions'[sid].message_count = Len(logs'[sid])]_vars

(***************************************************************************)
(* C3                                                                      *)
(***************************************************************************)
\* The first user message among the first TitleScan lines; 0 when there is none.
FirstUser(lines) ==
    LET users == {i \in 1..Min2(TitleScan, Len(lines)) : lines[i].role = "user"}
    IN IF users = {} THEN 0 ELSE Min(users)

\* C3 (as the specification states it): the title derivation runs for a session
\* exactly at the successful save that brings the session's message_count to 3:
\* that save sets the title derived from the first user message (when there is
\* one among the messages it reads), and a save that brings message_count to
\* any other value leaves the title as it was.
C3_TitleDerivedExactlyAtThree ==
    [][faults = 0 =>
        \A m \in Msgs, session_id \in SessionIdArgs :
            LET sid == Resolve(session_id)
                r == save_message(Store, m, session_id, clock, "none")
            IN r.ok /\ sid \in DOMAIN sessions /\ Ends(r) =>
                 LET row == sessions'[sid]
                     u == FirstUser(logs'[sid])
                 IN IF row.message_count = 3
                    THEN u # 0 => row.title = title_of(logs'[sid][u].content)
                    ELSE row.title = sessions[sid].title]_vars

(***************************************************************************)
(* C4                                                                      *)
(***************************************************************************)
\* C4 (as the specification states it): every index row of a session
\* corresponds to the log entry at the same position of that session's log,
\* with identical content.
C4_RowAtSamePosition ==
    \A sid \in Ids :
        LET rows == Rows(messages, sid)
            lines == Lines(logs, sid)
        IN \A i \in 1..Len(rows) : i <= Len(lines) /\ LineOf(rows[i], lines[i])

\* rows[i..] can be matched, in order, with distinct lines of lines[j..].
RECURSIVE Embeds(_, _, _, _)
Embeds(rows, lines, i, j) ==
    IF i > Len(rows) THEN TRUE
    ELSE IF j > Len(lines) THEN FALSE
    ELSE IF LineOf(rows[i], lines[j]) THEN Embeds(rows, lines, i + 1, j + 1)
    ELSE Embeds(rows, lines, i, j + 1)

\* What the index does keep, in every reachable state: every index row of a
\* session has an entry of that session's log with identical role, content,
\* timestamp and token_count, distinct rows have distinct entries, in the same
\* order.  Only the positions differ.
C4_RowsEmbedInLog ==
    \A sid \in Ids : Embeds(Rows(messages, sid), Lines(logs, sid), 1, 1)

\* A session whose first index row is not its first log entry: the index write
\* of its first save failed, and a later save of another message succeeded.
C4_Shifted ==
    \E sid \in DOMAIN sessions :
        /\ Rows(messages, sid) # <<>>
        /\ ~LineOf(Rows(messages, sid)[1], Lines(logs, sid)[1])

(***************************************************************************)
(* C5                                                                      *)
(***************************************************************************)
\* C5: save_message appends the message to the log before it attempts the index
\* write.  When the index write fails, the call raises the error and leaves the
\* log with the new entry and the index (rows, AUTOINCREMENT counter, session
\* counters) as it was.  In every outcome of a save, the inserted row and the
\* update of message_count, token_count and updated_at are committed together
\* or not at all.
C5_LogBeforeIndex ==
    \A m \in Msgs, session_id \in SessionIdArgs :
        LET sid == Resolve(session_id)
            r == save_message(Store, m, session_id, clock, "index")
        IN sid \in DOMAIN logs =>
            /\ ~r.ok /\ r.err = "OperationalError"
            /\ DOMAIN r.st.logs = DOMAIN logs
            /\ \A other \in DOMAIN logs \ {sid} : r.st.logs[other] = logs[other]
            /\ Len(r.st.logs[sid]) = Len(logs[sid]) + 1
            /\ SubSeq(r.st.logs[sid], 1, Len(logs[sid])) = logs[sid]
            /\ LET line == r.st.logs[sid][Len(logs[sid]) + 1]
               IN /\ line.role = m.role
                  /\ line.content = m.content
                  /\ line.timestamp = clock
                  /\ line.token_count = m.token_count
            /\ r.st.messages = messages
            /\ r.st.sqlite_sequence = sqlite_sequence
            /\ r.st.sessions = sessions
            /\ \A fail \in SaveFails :
                LET q == save_message(Store, m, session_id, clock, fail)
                    inserted ==
                        /\ Len(q.st.messages) = Len(messages) + 1
                        /\ q.st.messages[Len(messages) + 1].session_id = sid
                        /\ q.st.messages[Len(messages) + 1].content = m.content
                    counted ==
                        sid \in DOMAIN sessions =>
                            /\ q.st.sessions[sid].message_count =
                                   sessions[sid].message_count + 1
                            /\ q.st.sessions[sid].token_count =
                                   sessions[sid].token_count + m.token_count
                            /\ q.st.sessions[sid].updated_at = clock
                    neither ==
                        /\ q.st.messages = messages
                        /\ q.st.sessions = sessions
                IN (inserted /\ counted) \/ neither

\* A branch whose copy loop stopped at a save whose index write failed: the
\* entry is in the log of the branch, and no row and no count stand for it.
C5_Witness ==
    /\ faults = 1
    /\ \E sid \in DOMAIN sessions :
        /\ sessions[sid].branch_point # NullInt
        /\ sessions[sid].message_count < sessions[sid].branch_point
        /\ Len(Lines(logs, sid)) > sessions[sid].message_count

Kept(n, k) == IF k < 0 THEN Max2(n + k, 0) ELSE Min2(k, n)

C7_SourceUntouched ==
    \A session_id \in SessionIdArgs, new_id \in Ids :
        \A at_message \in AtArgs(Resolve(session_id)) :
            \A fail \in BranchFails(BranchCopies(Resolve(session_id), at_message)) :
                LET sid == Resolve(session_id)
                    r == branch_session(Store, session_id, at_message, new_id, clock, fail)
                IN sid \in DOMAIN sessions =>
                    /\ sid \in DOMAIN r.st.sessions
                    /\ r.st.sessions[sid] = sessions[sid]
                    /\ Rows(r.st.messages, sid) = Rows(messages, sid)
                    /\ (sid \in DOMAIN r.st.logs) = (sid \in DOMAIN logs)
                    /\ Lines(r.st.logs, sid) = Lines(logs, sid)

\* A branch made after its source was last written: it holds copies of the
\* source's messages, and the source's updated_at is older than the branch.
C7_Witness ==
    \E sid \in DOMAIN sessions :
        LET parent == sessions[sid].parent_session_id
        IN /\ parent \in DOMAIN sessions
           /\ sessions[sid].message_count >= 1
           /\ sessions[parent].updated_at < sessions[sid].created_at
           /\ sessions[parent].message_count = Len(Lines(logs, parent))

(***************************************************************************)
(* C8                                                                      *)
(***************************************************************************)
RECURSIVE SumTokens(_)
SumTokens(lines) ==
    IF lines = <<>> THEN 0 ELSE lines[1].token_count + SumTokens(Tail(lines))

\* C8 (as the specification states it): after branch_session(S, k) returns S',
\* the i-th message of S' equals the i-th message of S in role, content,
\* tool_calls, tool_results and token_count, for every i up to branch_point;
\* the message_count of S' is branch_point and its token_count is the sum of
\* the token_count of the copied messages.
C8_CopiesEqualSource ==
    [][\A session_id \in SessionIdArgs, new_id \in Ids :
        \A at_message \in AtArgs(Resolve(session_id)) :
            LET sid == Resolve(session_id)
                r == branch_session(Store, session_id, at_message, new_id, clock, NoFail)
            IN r.ok /\ Ends(r) =>
                LET child == sessions'[r.val]
                    src == Lines(logs', sid)
                    dst == Lines(logs', r.val)
                IN /\ child.message_count = child.branch_point
                   /\ child.token_count = SumTokens(SubSeq(src, 1, child.branch_point))
                   /\ \A i \in 1..child.branch_point :
                        /\ i <= Len(dst)
                        /\ dst[i].role = src[i].role
                        /\ dst[i].content = src[i].content
                        /\ dst[i].tool_calls = src[i].tool_calls
                        /\ dst[i].tool_results = src[i].tool_results
                        /\ dst[i].token_count = src[i].token_count]_vars

(***************************************************************************)
(* C9                                                                      *)
(***************************************************************************)
BranchSuffix == <<" ", "(", "b", "r", "a", "n", "c", "h", ")">>

\* The title the copy loop leaves on a branch whose directory held the lines
\* `had` and that received the copies `copied`: the derived title when the
\* third copy found a user message among the first lines, else none.
CopyTitle(had, copied) ==
    IF Len(copied) < 3 THEN NULL
    ELSE LET seen == had \o SubSeq(copied, 1, 3)
             u == FirstUser(seen)
         IN IF u = 0 THEN NULL ELSE title_of(seen[u].content)

\* C9 (as the specification states it): when S has a title T, the branch's
\* title is exactly "T (branch)", also when three or more copies made the
\* title derivation run; when S has no title, branch_session sets no
\* "(branch)" title.
C9_TitledSourceGivesBranchTitle ==
    [][\A session_id \in SessionIdArgs, new_id \in Ids :
        \A at_message \in AtArgs(Resolve(session_id)) :
            LET sid == Resolve(session_id)
                r == branch_session(Store, session_id, at_message, new_id, clock, NoFail)
            IN r.ok /\ Ends(r) =>
                LET T == sessions[sid].title
                    copied == SubSeq(Lines(logs, sid), 1,
                                     sessions'[r.val].branch_point)
                IN IF T # NULL
                   THEN sessions'[r.val].title = T \o BranchSuffix
                   ELSE sessions'[r.val].title
                            = CopyTitle(Lines(logs, r.val), copied)]_vars

\* C9 (amended): when S has a non-empty title T, the branch's title is exactly
\* "T (branch)", also when three or more copies made the title derivation
\* run; when S has no title or the empty title, branch_session sets no
\* "(branch)" title, and the branch keeps what the copies left: the derived
\* title, or none.
C9_NonEmptyTitleGivesBranchTitle ==
    \A session_id \in SessionIdArgs, new_id \in Ids :
        \A at_message \in AtArgs(Resolve(session_id)) :
            LET sid == Resolve(session_id)
                r == branch_session(Store, session_id, at_message, new_id, clock, NoFail)
            IN r.ok =>
                LET T == sessions[sid].title
                    copied == SubSeq(Lines(logs, sid), 1,
                                     r.st.sessions[r.val].branch_point)
                IN IF T # NULL /\ T # <<>>
                   THEN r.st.sessions[r.val].title = T \o BranchSuffix
                   ELSE r.st.sessions[r.val].title
                            = CopyTitle(Lines(logs, r.val), copied)

\* A branch of three copies, one of them a user message, of a titled source:
\* the derivation ran during the copy, and the title is "T (branch)".
C9_Witness ==
    \E sid \in DOMAIN sessions :
        LET parent == sessions[sid].parent_session_id
        IN /\ parent \in DOMAIN sessions
           /\ sessions[sid].message_count = 3
           /\ FirstUser(Lines(logs, sid)) # 0
           /\ sessions[parent].title \notin {NULL, <<>>}
           /\ sessions[sid].title = sessions[parent].title \o BranchSuffix

(***************************************************************************)
(* C10                                                                     *)
(***************************************************************************)
\* C10: branch_session on a source id that has no session row, or with no id
\* when there is no current session, raises and has no effect: no row, no
\* log directory and no index row is created or changed, and the current
\* session and its counter are what they were.  When no step of the call
\* fails by itself, the error is the ValueError of the method.
C10_MissingSourceNoEffect ==
    \A session_id \in SessionIdArgs, new_id \in Ids :
        \A at_message \in {NoneArg} \cup {SomeArg(k) : k \in -1..1} :
            \A fail \in BranchFails(1) :
                LET sid == Resolve(session_id)
                    r == branch_session(Store, session_id, at_message, new_id, clock, fail)
                IN sid \notin DOMAIN sessions =>
                    /\ ~r.ok
                    /\ r.st = Store
                    /\ fail = NoFail => r.err = "ValueError"

\* A manager with a current session, and an id that has a directory with
\* messages and no row: branching from that id raises.
C10_Witness ==
    /\ current_session_id \in DOMAIN sessions
    /\ \E sid \in DOMAIN logs \ DOMAIN sessions :
        /\ logs[sid] # <<>>
        /\ ~branch_session(Store, sid, NoneArg, sid, clock, NoFail).ok

(***************************************************************************)
(* C11                                                                     *)
(***************************************************************************)
\* C11: save_message with no session_id while no current session is set raises
\* the usage error (ValueError) before any write: whatever message is passed
\* and whatever later step would fail, the logs, the index rows, the session
\* rows with their counters, the AUTOINCREMENT counter and the in-memory
\* message counter are what they were.
C11_NoSessionNoWrite ==
    current_session_id = NoId =>
        \A m \in Msgs, fail \in SaveFails :
            LET r == save_message(Store, m, NoId, clock, fail)
            IN /\ ~r.ok
               /\ r.err = "ValueError"
               /\ r.st = Store

\* A manager with no current session over a store with a session that holds
\* messages (a new process on an existing directory): a save with no id has
\* something it could write to, and raises.
C11_Witness ==
    /\ current_session_id = NoId
    /\ \E sid \in DOMAIN sessions :
        /\ sessions[sid].message_count >= 1
        /\ Lines(logs, sid) # <<>>
    /\ ~save_message(Store, CHOOSE m \in Msgs : TRUE, NoId, clock, "none").ok

(***************************************************************************)
(* C12                                                                     *)
(***************************************************************************)
\* C12 (as the specification states it): save_message with a session id that
\* has no session row (never created, or hard-deleted, also by a hard delete
\* whose directory removal failed) fails and creates nothing: the call raises
\* and leaves no new session row, log entry or index row.
C12_UnknownSessionNoWrite ==
    [][\A m \in Msgs, session_id \in Ids \ DOMAIN sessions :
        LET r == save_message(Store, m, session_id, clock, "none")
        IN Ends(r) =>
            /\ ~r.ok
            /\ sessions' = sessions
            /\ logs' = logs
            /\ messages' = messages]_vars

(***************************************************************************)
(* C13                                                                     *)
(***************************************************************************)
MaxOf(S) == CHOOSE x \in S : \A y \in S : x >= y

\* The first line of the first 50 characters: the longest prefix of at most 50
\* characters that holds no newline.
TitleLine(content) ==
    SubSeq(content, 1,
           MaxOf({k \in 0..Min2(50, Len(content)) :
                     \A i \in 1..k : content[i] # "\n"}))

\* s without its trailing '.', '!' and '?': the prefix that ends with the last
\* character of s that is none of them.
Stripped(s) ==
    SubSeq(s, 1, MaxOf({k \in 0..Len(s) : k = 0 \/ s[k] \notin {".", "!", "?"}}))

\* The title of the claim for a user message with this content.
ClaimedTitle(content) ==
    IF Len(TitleLine(content)) < Len(content)
    THEN Stripped(TitleLine(content)) \o <<".", ".", ".">>
    ELSE content

UserLines(lines) == {i \in 1..Len(lines) : lines[i].role = "user"}

\* C13 (as the specification states it): when the title derivation fires for a
\* session (the save that brings the manager's counter to 3), the title
\* becomes the claimed title of the earliest user message of the session's
\* log; when the log has no user message, the title is left as it was.
C13_TitleFromEarliestUser ==
    [][\A m \in TitleMsgs :
        LET r == save_message(Store, m, NoId, clock, "none")
            sid == current_session_id
        IN r.ok /\ Ends(r) /\ mem_message_count' = 3 =>
            LET users == UserLines(logs'[sid])
            IN IF users = {}
               THEN sessions'[sid].title = sessions[sid].title
               ELSE sessions'[sid].title
                        = ClaimedTitle(logs'[sid][Min(users)].content)]_vars

\* What the derivation does compute, in every reachable state: the claimed
\* title of the earliest user message among the first 5 messages of the log;
\* when none of the first 5 messages is a user message, the title is left as
\* it was.
C13_TitleFromEarliestUserOfFive ==
    \A m \in TitleMsgs :
        LET r == save_message(Store, m, NoId, clock, "none")
            sid == current_session_id
        IN r.ok /\ r.st.mem_message_count = 3 =>
            LET lines == r.st.logs[sid]
                users == {i \in UserLines(lines) : i <= 5}
            IN IF users = {}
               THEN r.st.sessions[sid].title = sessions[sid].title
               ELSE r.st.sessions[sid].title
                        = ClaimedTitle(lines[Min(users)].content)

\* A session whose derived title was cut after punctuation: the title is the
\* 48 characters before it and "...".
C13_CutAfterPunctuation ==
    \E sid \in DOMAIN sessions :
        /\ sessions[sid].message_count = 3
        /\ sessions[sid].title = Rep("a", 48) \o <<".", ".", ".">>

(***************************************************************************)
(* C14                                                                     *)
(***************************************************************************)
\* C14 (as the specification states it): after create_session returns X, the
\* row of X is there with status active, message_count 0, token_count 0 and
\* the given project_path, model, parent and branch_point; the log of X
\* exists and is empty; no index row has session_id X; X is the current
\* session; X is the id of no session that existed before the call, and the
\* sessions that existed are as they were.
C14_CreateInitialises ==
    [][\A new_id \in Ids, args \in CreateArgs :
        LET r == create_session(Store, new_id, args, NoId, NullInt, clock, "none")
        IN r.ok /\ Ends(r) =>
            /\ r.val \notin DOMAIN sessions
            /\ r.val \in DOMAIN sessions'
            /\ sessions'[r.val].status = "active"
            /\ sessions'[r.val].message_count = 0
            /\ sessions'[r.val].token_count = 0
            /\ sessions'[r.val].project_path = args.project_path
            /\ sessions'[r.val].model = args.model
            /\ sessions'[r.val].parent_session_id = NoId
            /\ sessions'[r.val].branch_point = NullInt
            /\ r.val \in DOMAIN logs'
            /\ logs'[r.val] = <<>>
            /\ Rows(messages', r.val) = <<>>
            /\ current_session_id' = r.val
            /\ \A sid \in DOMAIN sessions : sessions'[sid] = sessions[sid]]_vars

\* What create_session does keep, in every reachable state: an id that has a
\* session row is never taken again (the call raises and changes nothing),
\* and a create that returns leaves every other row, log and index row as it
\* was and adds no line and no index row.
C14_NoRowReused ==
    \A new_id \in Ids, args \in CreateArgs :
        LET r == create_session(Store, new_id, args, NoId, NullInt, clock, "none")
        IN IF new_id \in DOMAIN sessions
           THEN ~r.ok /\ r.st = Store
           ELSE /\ r.ok /\ r.val = new_id
                /\ \A sid \in DOMAIN sessions : r.st.sessions[sid] = sessions[sid]
                /\ r.st.messages = messages
                /\ \A sid \in DOMAIN logs : r.st.logs[sid] = logs[sid]

(***************************************************************************)
(* C15                                                                     *)
(***************************************************************************)
\* C15: load_session of an id that has a row, whatever its status, returns
\* the row (here its id) and makes the session the current one: a later
\* save_message with no session_id does what save_message with that id does,
\* and the line it appends goes to the log of that session.  load_session of
\* an id that has no row returns None without raising and changes nothing,
\* the current session and the in-memory message counter included.
C15_LoadMakesCurrent ==
    \A session_id \in Ids :
        LET r == load_session(Store, session_id, FALSE)
        IN IF session_id \in DOMAIN sessions
           THEN /\ r.ok
                /\ r.val = session_id
                /\ r.st.current_session_id = session_id
                /\ r.st.sessions = sessions
                /\ \A m \in Msgs, fail \in SaveFails :
                      LET w == save_message(r.st, m, NoId, clock, fail)
                      IN /\ w = save_message(r.st, m, session_id, clock, fail)
                         /\ w.ok => /\ Len(Lines(w.st.logs, session_id))
                                         = Len(Lines(logs, session_id)) + 1
                                    /\ \A other \in Ids \ {session_id} :
                                          Lines(w.st.logs, other) = Lines(logs, other)
           ELSE /\ r.ok
                /\ r.val = NoId
                /\ r.st = Store

\* The manager's current session was hard-deleted after a message was saved
\* to it, so that loading its id returns None, and the other session is
\* archived or deleted: loading that one makes it current, and a save with
\* no id then succeeds.
C15_Witness ==
    /\ current_session_id \in Ids \ DOMAIN sessions
    /\ mem_message_count > 0
    /\ load_session(Store, current_session_id, FALSE).val = NoId
    /\ \E session_id \in DOMAIN sessions :
        /\ sessions[session_id].status # "active"
        /\ \E m \in Msgs :
              save_message(load_session(Store, session_id, FALSE).st,
                           m, NoId, clock, "none").ok

(***************************************************************************)
(* C16                                                                     *)
(***************************************************************************)
\* The values of the arguments of list_sessions: a project_path of None, of
\* the empty string, and of the paths sessions are created with; a limit
\* below zero, of zero, below and above the number of sessions.
PathArgs == {NULL, <<>>} \cup {a.project_path : a \in ListArgs}

LimitArgs == {-1, 0, 1, 2, DefaultLimit}

Descending(st, s) ==
    \A i, j \in 1..Len(s) :
        i < j => st.sessions[s[i]].updated_at >= st.sessions[s[j]].updated_at

\* The active sessions no active session was updated after.
LatestActive(st) ==
    {id \in list_where(st, "active", NULL) :
        \A other \in list_where(st, "active", NULL) :
            st.sessions[other].updated_at <= st.sessions[id].updated_at}

\* C16 as stated: list_sessions returns only sessions of the requested status,
\* of the project_path when one is passed, at most limit of them, by
\* updated_at descending; get_most_recent_session returns the head of
\* list_sessions(limit=1), or None; and after a successful save_message to an
\* active session S, get_most_recent_session returns S.
C16_ListedAsStated ==
    \A status \in Statuses, project_path \in PathArgs, limit \in LimitArgs \ {-1} :
        \A s \in list_sessions(Store, limit, status, project_path) :
            /\ \A i \in 1..Len(s) :
                  /\ sessions[s[i]].status = status
                  /\ project_path # NULL => sessions[s[i]].project_path = project_path
            /\ Len(s) <= limit
            /\ Descending(Store, s)

C16_MostRecentIsLastSaved ==
    /\ []C16_ListedAsStated
    /\ [][\A m \in Msgs, session_id \in SessionIdArgs, fail \in SaveFails :
            LET r == save_message(Store, m, session_id, clock, fail)
                S == Resolve(session_id)
            IN /\ r.ok
               /\ Ends(r)
               /\ S \in DOMAIN r.st.sessions
               /\ r.st.sessions[S].status = "active"
               => get_most_recent_session(r.st) = {S}]_vars

\* C16, amended: list_sessions returns sessions of the requested status, and
\* of the project_path when a non-empty one is passed (an empty string is no
\* filter), each once, by updated_at descending with sessions updated at the
\* same time in any order; for a limit of zero or more it returns the first
\* limit of them, all when there are fewer, and for a limit below zero all of
\* them.  get_most_recent_session returns None when no session is active, and
\* otherwise an active session that no active session was updated after.
\* After a successful save_message to an active session S, S is such a
\* session, and it is the one returned when every other active session was
\* updated before the save.
C16_ListedByUpdate ==
    /\ \A status \in Statuses, project_path \in PathArgs, limit \in LimitArgs :
          LET match == {id \in DOMAIN sessions :
                           /\ sessions[id].status = status
                           /\ project_path \notin {NULL, <<>>}
                                 => sessions[id].project_path = project_path}
              res == list_sessions(Store, limit, status, project_path)
          IN /\ res # {}
             /\ \A s \in res :
                   /\ {s[i] : i \in 1..Len(s)} \subseteq match
                   /\ \A i, j \in 1..Len(s) : i # j => s[i] # s[j]
                   /\ Descending(Store, s)
                   /\ Len(s) = IF limit < 0 THEN Cardinality(match)
                               ELSE Min2(limit, Cardinality(match))
                   /\ \A id \in match \ {s[i] : i \in 1..Len(s)} :
                         \A i \in 1..Len(s) :
                             sessions[id].updated_at <= sessions[s[i]].updated_at
    /\ get_most_recent_session(Store) =
          IF LatestActive(Store) = {} THEN {NoId} ELSE LatestActive(Store)
    /\ \A m \in Msgs, session_id \in SessionIdArgs, fail \in SaveFails :
          LET r == save_message(Store, m, session_id, clock, fail)
              S == Resolve(session_id)
          IN /\ r.ok
             /\ S \in DOMAIN r.st.sessions
             /\ r.st.sessions[S].status = "active"
             => /\ S \in get_most_recent_session(r.st)
                /\ (\A other \in list_where(Store, "active", NULL) \ {S} :
                       sessions[other].updated_at < clock)
                      => get_most_recent_session(r.st) = {S}

\* Two active sessions of different projects, the one with a message saved
\* after the other was last updated: that one is the most recent session,
\* the list of either project holds one of the two, and the list of both is
\* in one order only.
C16_Witness ==
    \E S, other \in DOMAIN sessions :
        /\ sessions[S].status = "active"
        /\ sessions[other].status = "active"
        /\ sessions[S].message_count > 0
        /\ sessions[S].updated_at > sessions[other].updated_at
        /\ Truthy(sessions[S].project_path)
        /\ Truthy(sessions[other].project_path)
        /\ sessions[S].project_path # sessions[other].project_path
        /\ get_most_recent_session(Store) = {S}
        /\ list_sessions(Store, DefaultLimit, "active", NULL) = {<<S, other>>}
        /\ list_sessions(Store, DefaultLimit, "active", sessions[other].project_path)
              = {<<other>>}

(***************************************************************************)
(* C17                                                                     *)
(***************************************************************************)
InEvery(st, id, limit, status) ==
    \A s \in list_sessions(st, limit, status, NULL) : \E i \in 1..Len(s) : s[i] = id

InNone(st, id, status) ==
    \A limit \in LimitArgs, project_path \in PathArgs :
        \A s \in list_sessions(st, limit, status, project_path) :
            \A i \in 1..Len(s) : s[i] # id

\* The row but for its status and the time of its last update.
Metadata(row) == [row EXCEPT !.status = "any", !.updated_at = 0]

\* C17: after delete_session(id) with hard=False on a session that has a
\* row, id is in list_sessions(status='deleted') and in no list of another
\* status, load_session(id) returns the row, with every column but status
\* and updated_at what it was (message_count and token_count among them),
\* the logs and the index rows are what they were, and update_status(id,
\* 'active') at that time or later puts it in list_sessions(status='active')
\* and in no list of deleted sessions.
C17_SoftDeleteReversible ==
    \A id \in DOMAIN sessions :
        LET r == delete_session(Store, id, FALSE, clock, "none")
        IN /\ r.ok
           /\ r.st.sessions[id].status = "deleted"
           /\ InEvery(r.st, id, DefaultLimit, "deleted")
           /\ InEvery(r.st, id, -1, "deleted")
           /\ InNone(r.st, id, "active")
           /\ InNone(r.st, id, "archived")
           /\ load_session(r.st, id, FALSE).val = id
           /\ DOMAIN r.st.sessions = DOMAIN sessions
           /\ Metadata(r.st.sessions[id]) = Metadata(sessions[id])
           /\ \A other \in DOMAIN sessions \ {id} : r.st.sessions[other] = sessions[other]
           /\ r.st.logs = logs
           /\ r.st.messages = messages
           /\ \A now \in clock..MaxClock :
                 LET u == update_status(r.st, id, "active", now, FALSE)
                 IN /\ u.ok
                    /\ InEvery(u.st, id, DefaultLimit, "active")
                    /\ InEvery(u.st, id, -1, "active")
                    /\ InNone(u.st, id, "deleted")
                    /\ Metadata(u.st.sessions[id]) = Metadata(sessions[id])
                    /\ u.st.logs = logs
                    /\ u.st.messages = messages

\* A session with a message in its log and in the index was soft-deleted
\* while the other session stayed active: it is listed as deleted, and the
\* other one as active.
C17_Witness ==
    \E id, other \in DOMAIN sessions :
        /\ sessions[id].status = "deleted"
        /\ sessions[id].message_count > 0
        /\ Rows(messages, id) # <<>>
        /\ Lines(logs, id) # <<>>
        /\ sessions[other].status = "active"
        /\ list_sessions(Store, DefaultLimit, "deleted", NULL) = {<<id>>}
        /\ list_sessions(Store, DefaultLimit, "active", NULL) = {<<other>>}
        /\ delete_session(Store, other, FALSE, clock, "none").ok

(***************************************************************************)
(* C18                                                                     *)
(***************************************************************************)
\* The one-token queries that match the messages saved.
Queries == UNION {fts_tokens(m.content) : m \in Msgs}

\* The default of search_sessions and no limit.
SearchLimits == {SearchLimit, -1}

\* C18: after delete_session(id, hard=True) returns, id has no session row,
\* no index row and no directory: load_session returns None, no list of any
\* status, project or limit holds it, load_messages returns the empty list
\* and no search returns a hit of it; and the row, the log and the index
\* rows of every other id are what they were.
C18_HardDeleteRemovesAll ==
    \A id \in Ids :
        LET r == delete_session(Store, id, TRUE, clock, "none")
        IN /\ r.ok
           /\ id \notin DOMAIN r.st.sessions
           /\ Rows(r.st.messages, id) = <<>>
           /\ id \notin DOMAIN r.st.logs
           /\ load_session(r.st, id, FALSE).val = NoId
           /\ \A status \in Statuses : InNone(r.st, id, status)
           /\ load_messages(r.st, id, NoneArg, 0) = <<>>
           /\ \A query \in Queries, limit \in SearchLimits :
                 \A hits \in search_sessions(r.st, query, limit) :
                     \A k \in 1..Len(hits) : hits[k].session_id # id
           /\ \A other \in Ids \ {id} :
                 /\ other \in DOMAIN sessions <=> other \in DOMAIN r.st.sessions
                 /\ other \in DOMAIN sessions => r.st.sessions[other] = sessions[other]
                 /\ other \in DOMAIN logs <=> other \in DOMAIN r.st.logs
                 /\ Lines(r.st.logs, other) = Lines(logs, other)
                 /\ Rows(r.st.messages, other) = Rows(messages, other)
                 /\ \A query \in Queries :
                       {h \in search_hits(r.st, query) : h.session_id = other}
                           = {h \in search_hits(Store, query) : h.session_id = other}

\* A session with messages in its log and in the index, which a search
\* finds, was hard-deleted while the other session, which has messages too,
\* stayed: the one is gone and the other is found.
C18_Witness ==
    \E id \in Ids \ DOMAIN sessions, other \in DOMAIN sessions :
        /\ id \notin DOMAIN logs
        /\ sqlite_sequence > Len(messages)
        /\ Rows(messages, other) # <<>>
        /\ Lines(logs, other) # <<>>
        /\ \E query \in Queries : search_hits(Store, query) # {}
        /\ delete_session(Store, other, TRUE, clock, "none").ok

(***************************************************************************)
(* C19                                                                     *)
(***************************************************************************)
\* C19: a call that fails leaves no partial effect.  A create_session that
\* raises, be it from the INSERT or from making the directory or the log
\* file after the row was written, leaves the session rows, the index rows
\* and the directories as they were; a hard delete_session that raises, be it
\* from the database or while removing the directory, raises to the caller
\* and leaves the session rows and the index rows as they were.
C19_FailureLeavesNoEffect ==
    [][/\ \A new_id \in Ids, args \in CreateArgs, fail \in {"db", "fs"} :
             LET r == create_session(Store, new_id, args, NoId, NullInt, clock, fail)
             IN ~r.ok /\ Ends(r) =>
                   /\ r.st.sessions = sessions
                   /\ r.st.messages = messages
                   /\ r.st.logs = logs
       /\ \A session_id \in Ids, fail \in {"db", "fs", "fs_file"} :
             LET r == delete_session(Store, session_id, TRUE, clock, fail)
             IN ~r.ok /\ Ends(r) =>
                   /\ r.st.sessions = sessions
                   /\ r.st.messages = messages]_vars

\* What does hold of the calls that fail: the database part of a call is one
\* transaction.  A create_session whose INSERT raises and a hard
\* delete_session whose DELETE or commit raises change nothing, and a hard
\* delete_session that raises while removing the directory has deleted the
\* session row together with every index row of the session, never the one
\* without the others.
C19_DatabaseFailureLeavesNoEffect ==
    /\ \A new_id \in Ids, args \in CreateArgs :
          LET r == create_session(Store, new_id, args, NoId, NullInt, clock, "db")
          IN ~r.ok /\ r.st = Store
    /\ \A session_id \in Ids :
          /\ LET r == delete_session(Store, session_id, TRUE, clock, "db")
             IN ~r.ok /\ r.st = Store
          /\ \A fail \in {"fs", "fs_file"} :
                LET r == delete_session(Store, session_id, TRUE, clock, fail)
                IN ~r.ok => /\ session_id \notin DOMAIN r.st.sessions
                            /\ Rows(r.st.messages, session_id) = <<>>
                            /\ session_id \in DOMAIN r.st.logs

(***************************************************************************)
(* C20                                                                     *)
(***************************************************************************)
\* Nothing of id X exists in st that did not exist before: no session row,
\* no index row, and no directory with a log unless one was left.
StaysPurged(st, X) ==
    /\ X \notin DOMAIN st.sessions
    /\ Rows(st.messages, X) = <<>>
    /\ X \notin DOMAIN logs => X \notin DOMAIN st.logs
    /\ Len(Lines(st.logs, X)) <= Len(Lines(logs, X))

\* update_title, update_status, soft delete and export of X leave X purged.
QuietCallsKeepPurged(X) ==
    /\ \A title \in Titles, raises \in BOOLEAN :
          StaysPurged(update_title(Store, X, title, clock, raises).st, X)
    /\ \A status \in Statuses, raises \in BOOLEAN :
          StaysPurged(update_status(Store, X, status, clock, raises).st, X)
    /\ \A fail \in {"none", "db"} :
          StaysPurged(delete_session(Store, X, FALSE, clock, fail).st, X)
    /\ \A format \in Formats :
          /\ StaysPurged(export_session(Store, X, format).st, X)
          /\ export_session(Store, X, format).st = Store

\* C20: an id whose session was hard-deleted (it has no session row and no
\* index row) stays purged whatever is called on it afterwards: update_title,
\* update_status, soft delete and export, and each save_message, load_session
\* and branch_session step of the program on that id, leave it without
\* session row, without index rows and with no more of a log than it had.
C20_PurgedIsTerminal ==
    /\ [](\A X \in Ids \ DOMAIN sessions :
             Rows(messages, X) = <<>> => QuietCallsKeepPurged(X))
    /\ [][\A X \in Ids \ DOMAIN sessions :
             Rows(messages, X) = <<>> =>
                /\ \A m \in Msgs, session_id \in SessionIdArgs, fail \in SaveFails :
                      LET r == save_message(Store, m, session_id, clock, fail)
                      IN Resolve(session_id) = X /\ Ends(r) => StaysPurged(r.st, X)
                /\ \A raises \in BOOLEAN :
                      LET r == load_session(Store, X, raises)
                      IN Ends(r) => StaysPurged(r.st, X) /\ r.val = NoId
                /\ \A session_id \in SessionIdArgs, new_id \in Ids :
                      \A at_message \in {NoneArg} \cup {SomeArg(k) : k \in -1..1} :
                          \A fail \in BranchFails(1) :
                              LET r == branch_session(Store, session_id, at_message,
                                                      new_id, clock, fail)
                              IN Resolve(session_id) = X /\ Ends(r) =>
                                    StaysPurged(r.st, X)]_vars

\* What does hold: an id with no session row, no index row and no directory
\* stays so under every call on it; save_message on it raises.
C20_PurgedWithNoDirectoryIsTerminal ==
    \A X \in Ids \ (DOMAIN sessions \cup DOMAIN logs) :
        Rows(messages, X) = <<>> =>
            /\ QuietCallsKeepPurged(X)
            /\ \A m \in Msgs, fail \in SaveFails :
                  LET r == save_message(Store, m, X, clock, fail)
                  IN ~r.ok /\ r.st = Store
            /\ load_session(Store, X, FALSE) = Return(Store, NoId)
            /\ \A new_id \in Ids, fail \in BranchFails(1) :
                  \A at_message \in {NoneArg} \cup {SomeArg(k) : k \in -1..1} :
                      LET r == branch_session(Store, X, at_message, new_id, clock, fail)
                      IN ~r.ok /\ r.st = Store

(***************************************************************************)
(* C21                                                                     *)
(***************************************************************************)
IsPrefix(a, b) == Len(a) <= Len(b) /\ SubSeq(b, 1, Len(a)) = a

\* The log of id in st begins with the log it is now.
LogKept(st, id) == id \in DOMAIN st.logs /\ IsPrefix(logs[id], st.logs[id])

\* Every log but that of id `but` is kept.
LogsKept(st, but) == \A id \in DOMAIN logs \ {but} : LogKept(st, id)

\* C21: the log of a session is append-only.  Whatever is called, hard
\* delete of that session apart, and whether the call returns or raises, the
\* log before the call is a prefix of the log after it: save_message to any
\* session, branch_session from or into any session, create_session,
\* update_title, update_status, soft delete, load_session, export_session
\* and hard delete of another session.
C21_LogAppendOnly ==
    /\ \A m \in Msgs, session_id \in SessionIdArgs, fail \in SaveFails :
          LogsKept(save_message(Store, m, session_id, clock, fail).st, NoId)
    /\ \A session_id \in SessionIdArgs, new_id \in Ids :
          \A at_message \in AtArgs(Resolve(session_id)) :
              \A fail \in BranchFails(BranchCopies(Resolve(session_id), at_message)) :
                  LogsKept(branch_session(Store, session_id, at_message, new_id,
                                          clock, fail).st, NoId)
    /\ \A new_id \in Ids, args \in CreateArgs, fail \in {"none", "db", "fs"} :
          LogsKept(create_session(Store, new_id, args, NoId, NullInt, clock, fail).st, NoId)
    /\ \A session_id \in Ids, raises \in BOOLEAN :
          /\ \A title \in Titles :
                LogsKept(update_title(Store, session_id, title, clock, raises).st, NoId)
          /\ \A status \in Statuses :
                LogsKept(update_status(Store, session_id, status, clock, raises).st, NoId)
          /\ LogsKept(delete_session(Store, session_id, FALSE, clock,
                                     IF raises THEN "db" ELSE "none").st, NoId)
          /\ LogsKept(load_session(Store, session_id, raises).st, NoId)
    /\ \A session_id \in SessionIdArgs, format \in Formats :
          LogsKept(export_session(Store, session_id, format).st, NoId)
    /\ \A other \in Ids, fail \in {"none", "db", "fs", "fs_file"} :
          LogsKept(delete_session(Store, other, TRUE, clock, fail).st, other)

\* A session with two lines or more in its log, to which a save appends a
\* line and which a branch copies into a leftover directory that has lines.
C21_Witness ==
    \E id \in DOMAIN sessions, left \in DOMAIN logs \ DOMAIN sessions :
        /\ Len(logs[id]) >= 2
        /\ logs[left] # <<>>
        /\ \E m \in Msgs :
              LET r == save_message(Store, m, id, clock, "none")
              IN r.ok /\ Len(r.st.logs[id]) = Len(logs[id]) + 1
        /\ LET b == branch_session(Store, id, NoneArg, left, clock, NoFail)
           IN b.ok /\ Len(b.st.logs[left]) > Len(logs[left])

(***************************************************************************)
(* C22                                                                     *)
(***************************************************************************)
\* The sessions that branch_session created.
Children(st) == {c \in DOMAIN st.sessions : st.sessions[c].parent_session_id # NoId}

\* Every child but `but` has in st the parent_session_id and the branch_point
\* it has now, and a message_count that is not below the one it has now.
ChildrenKept(st, but) ==
    \A c \in Children(Store) \ {but} :
        /\ c \in DOMAIN st.sessions
        /\ st.sessions[c].parent_session_id = sessions[c].parent_session_id
        /\ st.sessions[c].branch_point = sessions[c].branch_point
        /\ st.sessions[c].message_count >= sessions[c].message_count

\* C22: when branch_session returns, the child has the source as its
\* parent_session_id and a message_count that is not below its branch_point;
\* and no call, whether it returns or raises, changes the parent_session_id
\* or the branch_point of a child or lowers its message_count: save_message
\* to any session, update_title, update_status, soft delete, load_session,
\* create_session, branch_session from any session and hard delete of any
\* other session, the parent included.  So the message_count of a child
\* stays at or above its branch_point from the return of the branch on.
C22_BranchPointFixed ==
    /\ \A session_id \in SessionIdArgs, new_id \in Ids :
          \A at_message \in AtArgs(Resolve(session_id)) :
              \A fail \in BranchFails(BranchCopies(Resolve(session_id), at_message)) :
                  LET r == branch_session(Store, session_id, at_message, new_id,
                                          clock, fail)
                  IN /\ ChildrenKept(r.st, NoId)
                     /\ r.ok =>
                           /\ r.val \in Children(r.st)
                           /\ r.st.sessions[r.val].parent_session_id = Resolve(session_id)
                           /\ r.st.sessions[r.val].branch_point
                                 = BranchCopies(Resolve(session_id), at_message)
                           /\ r.st.sessions[r.val].message_count
                                 >= r.st.sessions[r.val].branch_point
    /\ \A m \in Msgs, session_id \in SessionIdArgs, fail \in SaveFails :
          ChildrenKept(save_message(Store, m, session_id, clock, fail).st, NoId)
    /\ \A new_id \in Ids, args \in CreateArgs, fail \in {"none", "db", "fs"} :
          ChildrenKept(create_session(Store, new_id, args, NoId, NullInt, clock, fail).st,
                       NoId)
    /\ \A session_id \in Ids, raises \in BOOLEAN :
          /\ \A title \in Titles :
                ChildrenKept(update_title(Store, session_id, title, clock, raises).st, NoId)
          /\ \A status \in Statuses :
                ChildrenKept(update_status(Store, session_id, status, clock, raises).st, NoId)
          /\ ChildrenKept(delete_session(Store, session_id, FALSE, clock,
                                         IF raises THEN "db" ELSE "none").st, NoId)
          /\ ChildrenKept(load_session(Store, session_id, raises).st, NoId)
    /\ \A other \in Ids, fail \in {"none", "db", "fs", "fs_file"} :
          ChildrenKept(delete_session(Store, other, TRUE, clock, fail).st, other)

\* A child that copied a message, to which a message was saved after the
\* branch returned, and whose parent was hard-deleted since.
C22_Witness ==
    \E c \in Children(Store) :
        /\ sessions[c].branch_point > 0
        /\ sessions[c].message_count > sessions[c].branch_point
        /\ sessions[c].parent_session_id \notin DOMAIN sessions
        /\ sessions[c].parent_session_id \notin DOMAIN logs

(***************************************************************************)
(* C23                                                                     *)
(***************************************************************************)
\* The lines of a log that are JSON values, in order.
WellFormed(lines) == SelectSeq(lines, LAMBDA l : ~json_loads_raises(l))

\* C23: load_messages skips a line that is no JSON value and returns every
\* other line, in order; and with such a line in the log of a session,
\* export_session of the session, branch_session from it and the save_message
\* that derives the title do not fail.
C23_MalformedSkipped ==
    \A sid \in DOMAIN logs :
        /\ ~load_messages_raises(Store, sid)
        /\ load_messages(Store, sid, NoneArg, 0) = WellFormed(logs[sid])
        /\ sid \in DOMAIN sessions =>
              /\ \A format \in Formats : export_session(Store, sid, format).ok
              /\ \A new_id \in Ids \ DOMAIN logs :
                    branch_session(Store, sid, NoneArg, new_id, clock, NoFail).ok
              /\ \A m \in Msgs : save_message(Store, m, sid, clock, "none").ok

SectionPerLine(e, lg) ==
    /\ Len(e.val.sections) = Len(lg)
    /\ \A k \in 1..Len(lg) :
          /\ e.val.sections[k].role = upper(lg[k].role)
          /\ e.val.sections[k].content = lg[k].content
          /\ e.val.sections[k].timestamp = lg[k].timestamp

\* The markdown export has one message section for each line of the log of
\* the session, in the order of the log.
C25_SectionPerLogEntry ==
    \A sid \in DOMAIN sessions :
        LET e == export_session(Store, sid, "markdown")
        IN e.ok /\ SectionPerLine(e, Lines(logs, sid))

\* C25: the markdown export of a session has one message section for each
\* line of its log, in order, and the export of the child that
\* branch_session creates from the first k messages of a source with k
\* messages or more has exactly k message sections, the first k lines of
\* the source.
C25_BranchExportHasKSections ==
    /\ []C25_SectionPerLogEntry
    /\ [][\A session_id \in SessionIdArgs, new_id \in Ids, k \in 0..MaxSeed :
            \A fail \in BranchFails(k) :
                LET sid == Resolve(session_id)
                    r == branch_session(Store, session_id, SomeArg(k), new_id,
                                        clock, fail)
                    e == export_session(r.st, r.val, "markdown")
                IN /\ sid \in DOMAIN sessions
                   /\ k <= Len(Lines(logs, sid))
                   /\ r.ok
                   /\ Ends(r)
                   => /\ e.ok
                      /\ SectionPerLine(e, SubSeq(Lines(logs, sid), 1, k))]_vars

(***************************************************************************)
(* C26                                                                     *)
(***************************************************************************)
\* Both calls have returned.
BothDone == \A w \in Writers : writer_pc(w) = "done"

\* The lines of the log that neither call wrote: the messages before them.
Before == SelectSeq(logs[Shared],
                    LAMBDA l : \A w \in Writers : l.content # WriterMsg(w).content)

\* Once both calls have returned, each of the two messages is in the log
\* once and in the index once, with what was there before in its place, and
\* message_count and token_count have grown by 2 and by the sum of the
\* token counts of the two.
C26_BothSavedOnce ==
    BothDone =>
        /\ \A w \in Writers : Cardinality(InLog(w)) = 1 /\ Cardinality(InIndex(w)) = 1
        /\ Len(logs[Shared]) = Len(Before) + 2
        /\ Len(Rows(messages, Shared)) = Len(Before) + 2
        /\ sessions[Shared].message_count = Len(Before) + 2
        /\ sessions[Shared].token_count
              = SumTokens(Before) + WriterMsg(1).token_count + WriterMsg(2).token_count
        /\ \A w \in Writers :
              LineOf(messages[Min(InIndex(w))], logs[Shared][Min(InLog(w))])

\* C26: when two save_message calls on one session run at the same time,
\* then once both have returned each message is in the log once and in the
\* index once, message_count has grown by 2 and token_count by the sum of
\* the two, and the two messages are in the same order in the log and in
\* the index.
C26_ConcurrentSavesSameOrder ==
    BothDone =>
        /\ C26_BothSavedOnce
        /\ Min(InLog(1)) < Min(InLog(2)) <=> Min(InIndex(1)) < Min(InIndex(2))

(***************************************************************************)
(* C27                                                                     *)
(***************************************************************************)
\* C27: between two calls the manager holds no connection and no file: every
\* call closed what it opened, whether it returned or raised.
C27_NoHandleHeld == open_handles = 0

\* What does hold: a call whose _get_db got past its PRAGMA closes its
\* connection, whether it returns or raises in the block or at the commit.
C27_ReleasedPastPragma ==
    /\ \A m \in Msgs, session_id \in SessionIdArgs, fail \in SaveFails :
          save_message(Store, m, session_id, clock, fail).st.open_handles = open_handles
    /\ \A session_id \in Ids, raises \in BOOLEAN :
          /\ \A title \in Titles :
                update_title(Store, session_id, title, clock, raises).st.open_handles
                    = open_handles
          /\ \A status \in Statuses :
                update_status(Store, session_id, status, clock, raises).st.open_handles
                    = open_handles
          /\ load_session(Store, session_id, raises).st.open_handles = open_handles

(***************************************************************************)
(* C28                                                                     *)
(***************************************************************************)
Returned(w) == calls[w].pc \in {"returned", "raised"}

\* A call that gave up raised the busy error, after the whole lock wait and
\* no more, and holds no lock.
BusyError(w) ==
    calls[w].pc = "raised" =>
        /\ calls[w].err = "OperationalError"
        /\ calls[w].waited = LockWait
        /\ db_lock # w

\* C28: a call that finds the write lock held waits no longer than the lock
\* wait, then raises the busy error to its caller without trying again, so
\* that every call that was made returns or raises in the end.
C28_EveryCallReturns ==
    /\ [](\A w \in Writers : calls[w].waited <= LockWait /\ BusyError(w))
    /\ \A w \in Writers : (calls[w].pc # "start") ~> Returned(w)

\* One call holds the lock in its block while the other, having waited for
\* it, gave up.
C28_Witness ==
    \E w \in Writers :
        /\ calls[w].pc = "raised"
        /\ db_lock \in Writers \ {w}
        /\ InLog(w) # {} /\ InIndex(w) = {}

(***************************************************************************)
(* C29                                                                     *)
(***************************************************************************)
\* The stores one call that writes nothing to the store can leave: a
\* `with self._get_db()` block of SELECTs (search_sessions, list_sessions,
\* get_session_info), whether it returns or raises, load_session and
\* export_session.
Reads(st) ==
    {get_db(st, st, raises) : raises \in BOOLEAN}
        \cup {load_session(st, id, raises).st : id \in Ids, raises \in BOOLEAN}
        \cup {export_session(st, id, format).st : id \in SessionIdArgs, format \in Formats}

SearchLimitArgs == {-1, 0, 1, 2, SearchLimit}

EmptyIsSafe ==
    checked.made /\ ~strips_to_text(checked.command) =>
        checked.safe /\ checked.reason = <<>>

\* C30: the allowed patterns, built-in and custom, are tried before the
\* blocked ones: a command that matches an allowed pattern is reported safe
\* with an empty reason, whatever blocked pattern it matches as well; and an
\* empty or whitespace-only command is always safe.
C30_AllowedOverridesBlocked ==
    /\ checked.made /\ any_allowed(parser, checked.command) =>
          checked.safe /\ checked.reason = <<>>
    /\ EmptyIsSafe

\* C30 as amended: the patterns are tried on the command with its runs of
\* whitespace made one space and its ends stripped; a command whose such
\* form matches an allowed pattern is reported safe with an empty reason,
\* whatever blocked pattern it matches as well.
C30_AllowedOverridesOnNormalized ==
    /\ checked.made /\ any_allowed(parser, normalized(checked.command)) =>
          checked.safe /\ checked.reason = <<>>
    /\ EmptyIsSafe

\* A command was checked that matches, once normalised, an allowed pattern,
\* a built-in blocked pattern and a custom blocked pattern.
C30_Witness ==
    /\ checked.made
    /\ checked.command # normalized(checked.command)
    /\ any_allowed(parser, normalized(checked.command))
    /\ blocked_by(normalized(checked.command)) # {}
    /\ custom_blocked_by(parser, normalized(checked.command)) # {}
    /\ checked.safe

(***************************************************************************)
(* C34                                                                     *)
(***************************************************************************)
\* C34: the status of every session row is active, archived or deleted, in
\* every state the calls of create_session, update_status, delete_session
\* and save_message lead to.
C34_StatusInSet == \A id \in DOMAIN sessions : sessions[id].status \in Statuses

\* What does hold: no call puts a status into a row but update_status, which
\* puts its argument, and the soft delete, which puts deleted.
C34_StatusFromArgument ==
    \A id \in DOMAIN sessions :
        /\ \A m \in Msgs, session_id \in SessionIdArgs, fail \in SaveFails :
              LET r == save_message(Store, m, session_id, clock, fail)
              IN id \in DOMAIN r.st.sessions /\ r.st.sessions[id].status = sessions[id].status
        /\ \A status \in StatusArgs :
              update_status(Store, id, status, clock, FALSE).st.sessions[id].status = status
        /\ delete_session(Store, id, FALSE, clock, "none").st.sessions[id].status = "deleted"

(***************************************************************************)
(* C35                                                                     *)
(***************************************************************************)
\* The entries of a log at the positions offset .. offset + limit - 1,
\* counted from 0.
Window(lines, offset, limit) ==
    SubSeq(lines, offset + 1, Min2(offset + limit, Len(lines)))

WindowArgs == 0..(MaxSeed + 1)

\* C35: load_messages(session, limit, offset) returns the entries of the log
\* at the positions offset .. offset + limit - 1, in log order, and so never
\* more than limit of them, for every limit >= 0 and offset >= 0; with no
\* limit it returns every entry from offset on.
C35_LoadReturnsWindow ==
    \A session_id \in SessionIdArgs, offset \in WindowArgs :
        LET lines == Lines(logs, Resolve(session_id))
        IN /\ \A limit \in WindowArgs :
                 LET got == load_messages(Store, session_id, SomeArg(limit), offset)
                 IN got = Window(lines, offset, limit) /\ Len(got) <= limit
           /\ load_messages(Store, session_id, NoneArg, offset)
                 = Window(lines, offset, Len(lines))

\* What does hold: the same for every limit >= 1, while a limit of 0 is
\* taken as no limit.
C35_LoadReturnsWindowOfOne ==
    \A session_id \in SessionIdArgs, offset \in WindowArgs :
        LET lines == Lines(logs, Resolve(session_id))
        IN /\ \A limit \in WindowArgs \ {0} :
                 load_messages(Store, session_id, SomeArg(limit), offset)
                     = Window(lines, offset, limit)
           /\ load_messages(Store, session_id, SomeArg(0), offset)
                 = load_messages(Store, session_id, NoneArg, offset)
           /\ load_messages(Store, session_id, NoneArg, offset)
                 = Window(lines, offset, Len(lines))

(***************************************************************************)
(* C36                                                                     *)
(***************************************************************************)
\* C36: a command that matches one of BLOCKED_PATTERNS is never reported
\* safe, whatever else it holds.
C36_BlockedNeverSafe ==
    checked.made /\ blocked_by(checked.command) # {} => ~checked.safe

\* What does hold: a command whose normalised form matches one of
\* BLOCKED_PATTERNS and no allowed pattern is reported unsafe, with the
\* reason of the first of BLOCKED_PATTERNS it matches.
C36_BlockedUnlessAllowed ==
    LET text == normalized(checked.command)
    IN checked.made /\ blocked_by(text) # {} /\ ~any_allowed(parser, text) =>
          /\ ~checked.safe
          /\ checked.reason = <<"Dangerous command blocked: ",
                                BLOCKED_PATTERNS[Min(blocked_by(text))].reason>>

(***************************************************************************)
(* C37                                                                     *)
(***************************************************************************)
\* The header of a markdown export shows as many messages as the export has
\* sections.
HeaderCountsSections(st, session_id) ==
    LET r == export_session(st, session_id, "markdown")
    IN r.ok => r.val.message_count = Len(r.val.sections)

\* C37: in every markdown export the count of messages in the header is the
\* number of message sections under it, also when a save_message on the
\* session is under way and after a save_message whose index write failed.
C37_HeaderCountsSections ==
    \A session_id \in SessionIdArgs : HeaderCountsSections(Store, session_id)

\* What does hold: the same as long as no call was left partly done.
C37_HeaderCountsSectionsUnfailed ==
    faults = 0 => \A session_id \in SessionIdArgs : HeaderCountsSections(Store, session_id)

(***************************************************************************)
(* C38                                                                     *)
(***************************************************************************)
\* save_message(m, session_id) that fails at its index write `tries` times,
\* and then the same call going through.
RECURSIVE Retried(_, _, _, _)
Retried(st, m, session_id, tries) ==
    IF tries = 0 THEN save_message(st, m, session_id, clock, "none")
    ELSE Retried(save_message(st, m, session_id, clock, "index").st, m, session_id,
                 tries - 1)

MaxTries == 2

Count(st, sid) == IF sid \in DOMAIN st.sessions THEN st.sessions[sid].message_count ELSE 0

\* C38: when a save_message fails because the index storage is busy and the
\* caller makes the call again until one succeeds, the log of the session
\* holds the message once more than before and message_count is 1 more.
C38_RetryAddsOnce ==
    \A m \in Msgs, session_id \in SessionIdArgs, tries \in 1..MaxTries :
        LET sid == Resolve(session_id)
            r == Retried(Store, m, session_id, tries)
        IN r.ok /\ sid \in DOMAIN sessions =>
              /\ Len(Lines(r.st.logs, sid)) = Len(Lines(logs, sid)) + 1
              /\ Count(r.st, sid) = Count(Store, sid) + 1

\* What does hold: message_count is 1 more and the index has one row more,
\* while the log holds the message once for every call made.
C38_RetryAddsLinePerCall ==
    \A m \in Msgs, session_id \in SessionIdArgs, tries \in 1..MaxTries :
        LET sid == Resolve(session_id)
            r == Retried(Store, m, session_id, tries)
        IN r.ok /\ sid \in DOMAIN sessions =>
              /\ Len(Lines(r.st.logs, sid)) = Len(Lines(logs, sid)) + tries + 1
              /\ Count(r.st, sid) = Count(Store, sid) + 1
              /\ Len(Rows(r.st.messages, sid)) = Len(Rows(messages, sid)) + 1

(***************************************************************************)
(* C39                                                                     *)
(***************************************************************************)
\* After the branch r of source sid the child is the current session: a
\* save_message with no session_id goes to the log of the child and leaves
\* the log of the source as it is.
ChildIsCurrent(r, sid) ==
    /\ r.st.current_session_id = r.val
    /\ r.val # sid
    /\ \A m \in Msgs :
          LET s == save_message(r.st, m, NoId, clock, "none")
          IN /\ s.ok
             /\ Lines(s.st.logs, r.val) = Append(Lines(r.st.logs, r.val), message_data(m, clock))
             /\ Lines(s.st.logs, sid) = Lines(r.st.logs, sid)

\* C39: after branch_session returns, the current session is the new child,
\* and every save_message with no session_id appends to the log of the child
\* and never to that of the source; a branch_session that raises, at
\* whichever step, leaves the current session as it was.
C39_BranchSetsCurrent ==
    \A session_id \in SessionIdArgs, new_id \in Ids :
        \A at_message \in AtArgs(Resolve(session_id)) :
            \A fail \in BranchFails(BranchCopies(Resolve(session_id), at_message)) :
                LET r == branch_session(Store, session_id, at_message, new_id, clock, fail)
                IN /\ r.ok => ChildIsCurrent(r, Resolve(session_id))
                   /\ ~r.ok => r.st.current_session_id = current_session_id

\* What does hold: the first part, and a branch_session that raises leaves
\* as the current session the one before the call, the source or the child
\* it had created.
C39_BranchSetsCurrentOnReturn ==
    \A session_id \in SessionIdArgs, new_id \in Ids :
        \A at_message \in AtArgs(Resolve(session_id)) :
            \A fail \in BranchFails(BranchCopies(Resolve(session_id), at_message)) :
                LET r == branch_session(Store, session_id, at_message, new_id, clock, fail)
                IN /\ r.ok => ChildIsCurrent(r, Resolve(session_id))
                   /\ ~r.ok => r.st.current_session_id
                                  \in {current_session_id, Resolve(session_id), new_id}


(***************************************************************************)
(* C31                                                                     *)
(***************************************************************************)
\* The hooks of the event that deny when called with the command.
Denying(event) ==
    LET hooks == registered(hook_manager, event)
    IN {k \in 1..Len(hooks) :
           LET c == call_hook(parser, hooks[k], hook_manager.command)
           IN ~c.raised /\ ~c.result.allowed}

\* The hooks of the event that do not return allowed=True.
Failing(event) ==
    LET hooks == registered(hook_manager, event)
    IN {k \in 1..Len(hooks) :
           LET c == call_hook(parser, hooks[k], hook_manager.command)
           IN c.raised \/ ~c.result.allowed}

First(S) == CHOOSE k \in S : \A j \in S : k <= j

Refused(name) ==
    /\ executor'.executed = executor.executed
    /\ executor'.messages =
           Append(executor.messages, Message("tool", name, not_allowed_error(name)))

ToolMessagesFollow(ex) ==
    \A i \in 1..Len(ex.messages) :
        LET m == ex.messages[i]
            n == Len(m.tool_calls)
        IN m.role = "assistant" =>
              /\ \A k \in 1..n :
                    /\ i + k <= Len(ex.messages)
                    /\ ex.messages[i + k].role = "tool"
                    /\ ex.messages[i + k].name = m.tool_calls[k].name
              /\ i + n + 1 <= Len(ex.messages) =>
                    ex.messages[i + n + 1].role # "tool"

\* C40: execute returns after at most max_rounds calls to the model, for
\* every sequence of model responses, and each tool call of a response has
\* added exactly one tool-role message, in call order, after the assistant
\* message that requested it. (That execute returns at all is
\* C40_ExecuteReturns.)
C40_ReturnsWithToolMessages ==
    /\ executor.chats <= executor.max_rounds
    /\ executor.pc = "done" => ToolMessagesFollow(executor)

\* What does hold: execute, once called, returns, whatever the model
\* responds and the tools do.
C40_ExecuteReturns ==
    executor.pc \in {"loop", "tools"} ~> executor.pc = "done"

\* What does hold: the model is called at most max_rounds times, and when
\* execute returns otherwise than with "Subagent error: ..." every tool call
\* has its tool-role message.
C40_ToolMessagesUnlessError ==
    /\ executor.chats <= executor.max_rounds
    /\ executor.pc = "done" /\ executor.returned # <<"Subagent error: ">> =>
          ToolMessagesFollow(executor)


(***************************************************************************)
(* C33                                                                     *)
(***************************************************************************)
\* The file does not parse as a definition of its kind: its YAML is not
\* valid or not a mapping, or it holds nothing.
FailsToParse(kind, file) ==
    \/ file.yaml \in {"invalid", "list", "empty"}
    \/ ~file.md

\* The file makes its parser raise or return None.
Unparsed(kind, file) ==
    \/ file.yaml \in {"list", "empty"}
    \/ file.yaml = "invalid" /\ kind # "commands"
    \/ ~file.md

Entries(listing) == {listing[i] : i \in 1..Len(listing)}

FromFile(definition, file, source) ==
    /\ definition.source = source
    /\ definition.stem = file.stem
    /\ definition.ext = file.ext

\* After a reload: a project definition replaces a global one of the same
\* name, a file that fails is skipped while the others are loaded, and a
\* built-in agent is there exactly when no loaded definition has its name.
Reloaded(Fails(_, _)) ==
    LET kind == loader.kind
        loaded == loader.loaded
        Named(file, source) == parse(kind, file, source).name
        sources == {<<"global", loader.global>>, <<"project", loader.project>>}
    IN /\ \A p \in Entries(loader.project), g \in Entries(loader.global) :
             /\ ~Fails(kind, p) /\ ~Fails(kind, g)
             /\ Named(p, "project") = Named(g, "global")
             => /\ Named(p, "project") \in DOMAIN loaded
                /\ loaded[Named(p, "project")].source = "project"
       /\ \A s \in sources : \A f \in Entries(s[2]) :
             IF Fails(kind, f)
             THEN \A n \in DOMAIN loaded : ~FromFile(loaded[n], f, s[1])
             ELSE Named(f, s[1]) \in DOMAIN loaded
       /\ kind = "agents" =>
             \A b \in BuiltinAgents :
                 /\ b \in DOMAIN loaded
                 /\ loaded[b].source = "builtin" <=>
                       \A s \in sources : \A f \in Entries(s[2]) :
                           Fails(kind, f) \/ Named(f, s[1]) # b

\* C33: for commands, skills and agent definitions, after a reload a
\* definition from the project directory replaces a global definition of the
\* same name, a file that fails to parse is skipped while all other files
\* are still loaded, and (for agents) a built-in agent is added only when no
\* loaded definition already has its name.
C33_ReloadSkipsUnparsable ==
    loader.reloaded => Reloaded(FailsToParse)

\* What does hold: the same, where the files skipped are those whose parser
\* raises or returns None; a command file whose frontmatter is not valid
\* YAML is not among them.
C33_ReloadSkipsUnparsed ==
    loader.reloaded => Reloaded(Unparsed)

====
